---- MODULE Spec2Model ----
(***************************************************************************)
(* The API token lifecycle manager of rtbhouse_sdk.api_tokens.managers     *)
(* (ApiTokenManager / AsyncApiTokenManager), its storage and the issuer it *)
(* talks to.  Callers are threads (or tasks) that run configure(),         *)
(* get_token() and keep_alive() on ONE manager; every storage call, issuer *)
(* call, clock reading and lock operation is one atomic step, and steps of *)
(* different callers interleave freely.                                    *)
(*                                                                         *)
(* Time is counted in minutes: ROTATION_WINDOW = timedelta(days=4) is 5760 *)
(* and _expiration_margin = timedelta(minutes=1) is 1.                     *)
(***************************************************************************)
EXTENDS Integers, Sequences, FiniteSets

-----------------------------------------------------------------------------
(* Program constants *)

ROTATION_WINDOW == 5760

EXPIRATION_MARGIN == 1

-----------------------------------------------------------------------------
(* Bounds of the model *)

\* The clock is read at the instants k and Jump + k, k = 0 .. MaxTicks:
\* minutes at the start, and minutes at the end of a rotation window that
\* starts at instant 1.
MaxTicks == 1

\* The tokens the issuer is willing to hand out are 1 .. MaxTokens.
MaxTokens == 3

\* The callers sharing the manager.
Callers == {1, 2}

Jump == ROTATION_WINDOW - 1

Instants == {j * Jump + k : j \in 0..1, k \in 0..MaxTicks}

\* The expiry of the record the storage may be constructed with: Fresh at
\* instant 0, in the rotation window from instant 1 to instant Jump, and
\* Expired from instant Jump + 1 on.
InitExpiresAt == ROTATION_WINDOW + 1

\* An expiry that is Fresh at every instant of the model.
FarExpiresAt == 2 * ROTATION_WINDOW + MaxTicks + 1

\* The expires_at the issuer answers with (heartbeat's and rotate's).
Expiries == {InitExpiresAt, FarExpiresAt}

\* The tokens a user passes to configure(): the one obtained from the
\* issuer out of band.
ConfigTokens == {1}

InitToken == CHOOSE t \in ConfigTokens : TRUE

NoRecord == [token |-> 0, expires_at |-> 0]

NoCaller == 0

NoResult == [kind |-> "none", token |-> 0]

-----------------------------------------------------------------------------
VARIABLES
    utcnow,      \* the value utcnow() returns
    storage,     \* the record the storage holds, or NoRecord
    lock,        \* the caller holding self._lock, or NoCaller
    lastSaver,   \* history: the caller whose save() wrote `storage` last
    pc,          \* per caller: the statement it is at; "idle" between calls
    api_token,   \* per caller: local api_token
    now,         \* per caller: local now
    rotated,     \* per caller: local new_api_token (made from rotated)
    result,      \* per caller: what its last call returned or raised
    trace        \* per caller: history: the storage, issuer and lock calls,
                 \* and the warnings, of its current (or else last) call

vars == <<utcnow, storage, lock, lastSaver, pc, api_token, now, rotated, result, trace>>

-----------------------------------------------------------------------------
(* Pure helpers *)

ApiToken(token, expires_at) == [token |-> token, expires_at |-> expires_at]

\* _raise_if_expired comparing with > : the instant expires_at - margin
\* itself passes.
_raise_if_expired_strict(tok, n) == n > tok.expires_at - EXPIRATION_MARGIN

\* ApiTokenManager._raise_if_expired: TRUE when it raises.
_raise_if_expired(tok, n) == n >= tok.expires_at - EXPIRATION_MARGIN

\* _in_rotation_window comparing with > : the instant expires_at - window
\* itself counts as Fresh.
_in_rotation_window_strict(tok, n) == n > (tok.expires_at - ROTATION_WINDOW)

\* ApiTokenManager._in_rotation_window
_in_rotation_window(tok, n) == n >= (tok.expires_at - ROTATION_WINDOW)

Returned(token) == [kind |-> "return", token |-> token]

Raised(exception) == [kind |-> exception, token |-> 0]

\* One entry of a call's history.
Event(ev, token, answer) == [ev |-> ev, token |-> token, answer |-> answer]

\* What ApiTokensAPI.heartbeat can answer: an ApiTokenStatus (ok), or an
\* ApiException (~ok).
HeartbeatAnswers ==
    {[ok |-> FALSE, is_expired |-> FALSE, can_rotate |-> FALSE, expires_at |-> 0]} \cup
    [ok : {TRUE}, is_expired : BOOLEAN, can_rotate : BOOLEAN, expires_at : Expiries]

\* What ApiTokensAPI.rotate can answer: a RotatedApiToken with the
\* expires_at of the new token (ok), or an ApiException (~ok).
RotateAnswers == {[ok |-> FALSE, expires_at |-> 0]} \cup [ok : {TRUE}, expires_at : Expiries]

\* The issuer's answer to heartbeat(token): it never reports the last token
\* it is willing to hand out as rotatable.
heartbeat(token, ans) ==
    IF token >= MaxTokens THEN [ans EXCEPT !.can_rotate = FALSE] ELSE ans

\* The issuer's answer to rotate(token): the next token, with the expiry
\* the issuer chose.
rotate(token, ans) == ApiToken(token + 1, ans.expires_at)

HeartbeatEvent(token, status) ==
    Event("heartbeat", token,
          IF ~status.ok THEN "error"
          ELSE IF status.is_expired THEN "expired"
          ELSE IF status.can_rotate THEN "rotatable"
          ELSE "refused")

\* warnings.warn(...) guarded by the in-rotation-window test
WarnEvents(tok, n) ==
    IF _in_rotation_window(tok, n) THEN <<Event("warn", 0, "")>> ELSE <<>>

-----------------------------------------------------------------------------
Init ==
    /\ utcnow = 0
    /\ storage \in {NoRecord, ApiToken(InitToken, InitExpiresAt)}
    /\ lock = NoCaller
    /\ lastSaver = NoCaller
    /\ pc = [p \in Callers |-> "idle"]
    /\ api_token = [p \in Callers |-> NoRecord]
    /\ now = [p \in Callers |-> 0]
    /\ rotated = [p \in Callers |-> NoRecord]
    /\ result = [p \in Callers |-> NoResult]
    /\ trace = [p \in Callers |-> <<>>]

\* The clock moves on.
tick(t) ==
    /\ t > utcnow
    /\ utcnow' = t
    /\ UNCHANGED <<storage, lock, lastSaver, pc, api_token, now, rotated, result, trace>>

-----------------------------------------------------------------------------
(* A call ends: the outcome `res` goes to the caller and the locals of the *)
(* call are gone.                                                          *)
Ends(p, res) ==
    /\ pc' = [pc EXCEPT ![p] = "idle"]
    /\ result' = [result EXCEPT ![p] = res]
    /\ api_token' = [api_token EXCEPT ![p] = NoRecord]
    /\ now' = [now EXCEPT ![p] = 0]
    /\ rotated' = [rotated EXCEPT ![p] = NoRecord]

\* Inside `with self._lock:` the outcome `res` is on its way out: the lock
\* is released next (pc "gt_exit" or "ka_exit").
Leaves(p, exit, res) ==
    /\ pc' = [pc EXCEPT ![p] = exit]
    /\ result' = [result EXCEPT ![p] = res]

Log(p, events) == trace' = [trace EXCEPT ![p] = @ \o events]

-----------------------------------------------------------------------------
(* get_token() *)

\* get_token() is called: api_token = self._storage.load()     (line 81)
get_token_load(p) ==
    /\ pc[p] = "idle"
    /\ trace' = [trace EXCEPT ![p] = <<Event("load", 0, "")>>]
    /\ IF storage = NoRecord
       THEN Ends(p, Raised("ApiTokenStorageException"))
       ELSE /\ pc' = [pc EXCEPT ![p] = "gt_check"]
            /\ result' = [result EXCEPT ![p] = NoResult]
            /\ api_token' = [api_token EXCEPT ![p] = storage]
            /\ UNCHANGED <<now, rotated>>
    /\ UNCHANGED <<utcnow, storage, lock, lastSaver>>

\* get_token_check without the fast path: a Fresh record goes on to the
\* lock like one in the rotation window.
get_token_check_no_fast_path(p) ==
    /\ pc[p] = "gt_check"
    /\ IF _raise_if_expired(api_token[p], utcnow)
       THEN Ends(p, Raised("TokenExpiredException"))
       ELSE /\ pc' = [pc EXCEPT ![p] = "gt_acquire"]
            /\ now' = [now EXCEPT ![p] = utcnow]
            /\ UNCHANGED <<api_token, rotated, result>>
    /\ UNCHANGED <<utcnow, storage, lock, lastSaver, trace>>

\* now = utcnow(); _raise_if_expired; fast path   (lines 82-88)
get_token_check(p) ==
    /\ pc[p] = "gt_check"
    /\ IF _raise_if_expired(api_token[p], utcnow)
       THEN Ends(p, Raised("TokenExpiredException"))
       ELSE IF ~_in_rotation_window(api_token[p], utcnow)
       THEN Ends(p, Returned(api_token[p].token))
       ELSE /\ pc' = [pc EXCEPT ![p] = "gt_acquire"]
            /\ now' = [now EXCEPT ![p] = utcnow]
            /\ UNCHANGED <<api_token, rotated, result>>
    /\ UNCHANGED <<utcnow, storage, lock, lastSaver, trace>>

\* with self._lock:  (entering)                 (line 90)
get_token_acquire(p) ==
    /\ pc[p] = "gt_acquire"
    /\ lock = NoCaller
    /\ lock' = p
    /\ pc' = [pc EXCEPT ![p] = "gt_reload"]
    /\ Log(p, <<Event("acquire", 0, "")>>)
    /\ UNCHANGED <<utcnow, storage, lastSaver, api_token, now, rotated, result>>

\* get_token_reload keeping the record read before the lock was taken.
get_token_reload_stale(p) ==
    /\ pc[p] = "gt_reload"
    /\ pc' = [pc EXCEPT ![p] = "gt_recheck"]
    /\ Log(p, <<Event("load", 0, "")>>)
    /\ UNCHANGED <<utcnow, storage, lock, lastSaver, api_token, now, rotated, result>>

\* api_token = self._storage.load()  inside the lock   (line 92)
get_token_reload(p) ==
    /\ pc[p] = "gt_reload"
    /\ Log(p, <<Event("load", 0, "")>>)
    /\ IF storage = NoRecord
       THEN /\ Leaves(p, "gt_exit", Raised("ApiTokenStorageException"))
            /\ UNCHANGED api_token
       ELSE /\ pc' = [pc EXCEPT ![p] = "gt_recheck"]
            /\ api_token' = [api_token EXCEPT ![p] = storage]
            /\ UNCHANGED result
    /\ UNCHANGED <<utcnow, storage, lock, lastSaver, now, rotated>>

\* get_token_recheck without the second window test: whatever is not
\* Expired goes on to the heartbeat.
get_token_recheck_no_window_test(p) ==
    /\ pc[p] = "gt_recheck"
    /\ now' = [now EXCEPT ![p] = utcnow]
    /\ IF _raise_if_expired(api_token[p], utcnow)
       THEN Leaves(p, "gt_exit", Raised("TokenExpiredException"))
       ELSE /\ pc' = [pc EXCEPT ![p] = "gt_heartbeat"]
            /\ UNCHANGED result
    /\ UNCHANGED <<utcnow, storage, lock, lastSaver, api_token, rotated, trace>>

\* get_token_recheck testing the reloaded record against the clock reading
\* made before the lock was taken.
get_token_recheck_stale_clock(p) ==
    /\ pc[p] = "gt_recheck"
    /\ IF _raise_if_expired(api_token[p], now[p])
       THEN Leaves(p, "gt_exit", Raised("TokenExpiredException"))
       ELSE IF ~_in_rotation_window(api_token[p], now[p])
       THEN Leaves(p, "gt_exit", Returned(api_token[p].token))
       ELSE /\ pc' = [pc EXCEPT ![p] = "gt_heartbeat"]
            /\ UNCHANGED result
    /\ UNCHANGED <<utcnow, storage, lock, lastSaver, api_token, now, rotated, trace>>

\* now = utcnow(); _raise_if_expired; second window test   (lines 93-98)
get_token_recheck(p) ==
    /\ pc[p] = "gt_recheck"
    /\ now' = [now EXCEPT ![p] = utcnow]
    /\ IF _raise_if_expired(api_token[p], utcnow)
       THEN Leaves(p, "gt_exit", Raised("TokenExpiredException"))
       ELSE IF ~_in_rotation_window(api_token[p], utcnow)
       THEN Leaves(p, "gt_exit", Returned(api_token[p].token))
       ELSE /\ pc' = [pc EXCEPT ![p] = "gt_heartbeat"]
            /\ UNCHANGED result
    /\ UNCHANGED <<utcnow, storage, lock, lastSaver, api_token, rotated, trace>>

\* get_token_heartbeat calling heartbeat again after an API error.
get_token_heartbeat_retries(p, ans) ==
    LET status == heartbeat(api_token[p].token, ans)
        called == <<HeartbeatEvent(api_token[p].token, status)>>
    IN  /\ pc[p] = "gt_heartbeat"
        /\ IF ~status.ok
           THEN /\ Log(p, called)
                /\ UNCHANGED <<pc, result>>
           ELSE IF status.is_expired
           THEN /\ Leaves(p, "gt_exit", Raised("TokenExpiredException"))
                /\ Log(p, called)
           ELSE IF ~status.can_rotate
           THEN /\ Leaves(p, "gt_exit", Returned(api_token[p].token))
                /\ Log(p, called \o WarnEvents(api_token[p], now[p]))
           ELSE /\ pc' = [pc EXCEPT ![p] = "gt_rotate"]
                /\ Log(p, called)
                /\ UNCHANGED result
        /\ UNCHANGED <<utcnow, storage, lock, lastSaver, api_token, now, rotated>>

\* status = self._api.heartbeat(api_token.token) and the tests on it
\*                                               (lines 100-111)
get_token_heartbeat(p, ans) ==
    LET status == heartbeat(api_token[p].token, ans)
        called == <<HeartbeatEvent(api_token[p].token, status)>>
    IN  /\ pc[p] = "gt_heartbeat"
        /\ IF ~status.ok
           THEN /\ Leaves(p, "gt_exit", Raised("ApiException"))
                /\ Log(p, called)
           ELSE IF status.is_expired
           THEN /\ Leaves(p, "gt_exit", Raised("TokenExpiredException"))
                /\ Log(p, called)
           ELSE IF ~status.can_rotate
           THEN /\ Leaves(p, "gt_exit", Returned(api_token[p].token))
                /\ Log(p, called \o WarnEvents(api_token[p], now[p]))
           ELSE /\ pc' = [pc EXCEPT ![p] = "gt_rotate"]
                /\ Log(p, called)
                /\ UNCHANGED result
        /\ UNCHANGED <<utcnow, storage, lock, lastSaver, api_token, now, rotated>>

\* get_token_rotate giving the lock back as soon as rotate has answered,
\* before the save.
get_token_rotate_early_release(p, ans) ==
    /\ pc[p] = "gt_rotate"
    /\ IF ~ans.ok
       THEN /\ Leaves(p, "gt_exit", Raised("ApiException"))
            /\ Log(p, <<Event("rotate", api_token[p].token, "error")>>)
            /\ UNCHANGED <<rotated, lock>>
       ELSE /\ pc' = [pc EXCEPT ![p] = "gt_save"]
            /\ lock' = NoCaller
            /\ rotated' = [rotated EXCEPT ![p] = rotate(api_token[p].token, ans)]
            /\ Log(p, <<Event("rotate", api_token[p].token, "ok")>>)
            /\ UNCHANGED result
    /\ UNCHANGED <<utcnow, storage, lastSaver, api_token, now>>

\* rotated = self._api.rotate(api_token.token); new_api_token = ...
\*                                               (lines 113-118)
get_token_rotate(p, ans) ==
    /\ pc[p] = "gt_rotate"
    /\ IF ~ans.ok
       THEN /\ Leaves(p, "gt_exit", Raised("ApiException"))
            /\ Log(p, <<Event("rotate", api_token[p].token, "error")>>)
            /\ UNCHANGED rotated
       ELSE /\ pc' = [pc EXCEPT ![p] = "gt_save"]
            /\ rotated' = [rotated EXCEPT ![p] = rotate(api_token[p].token, ans)]
            /\ Log(p, <<Event("rotate", api_token[p].token, "ok")>>)
            /\ UNCHANGED result
    /\ UNCHANGED <<utcnow, storage, lock, lastSaver, api_token, now>>

\* get_token_save storing the record it loaded instead of the new one.
get_token_save_old_record(p, ok) ==
    /\ pc[p] = "gt_save"
    /\ IF ok
       THEN /\ storage' = api_token[p]
            /\ lastSaver' = p
            /\ Leaves(p, "gt_exit", Returned(rotated[p].token))
            /\ Log(p, <<Event("save", rotated[p].token, "ok")>>)
       ELSE /\ Leaves(p, "gt_exit", Raised("OSError"))
            /\ Log(p, <<Event("save", rotated[p].token, "error")>>)
            /\ UNCHANGED <<storage, lastSaver>>
    /\ UNCHANGED <<utcnow, lock, api_token, now, rotated>>

\* get_token_save returning the token it loaded instead of the new one.
get_token_save_returns_old(p, ok) ==
    /\ pc[p] = "gt_save"
    /\ IF ok
       THEN /\ storage' = rotated[p]
            /\ lastSaver' = p
            /\ Leaves(p, "gt_exit", Returned(api_token[p].token))
            /\ Log(p, <<Event("save", rotated[p].token, "ok")>>)
       ELSE /\ Leaves(p, "gt_exit", Raised("OSError"))
            /\ Log(p, <<Event("save", rotated[p].token, "error")>>)
            /\ UNCHANGED <<storage, lastSaver>>
    /\ UNCHANGED <<utcnow, lock, api_token, now, rotated>>

\* self._storage.save(new_api_token); return new_api_token.token
\*                                               (lines 119-121)
get_token_save(p, ok) ==
    /\ pc[p] = "gt_save"
    /\ IF ok
       THEN /\ storage' = rotated[p]
            /\ lastSaver' = p
            /\ Leaves(p, "gt_exit", Returned(rotated[p].token))
            /\ Log(p, <<Event("save", rotated[p].token, "ok")>>)
       ELSE /\ Leaves(p, "gt_exit", Raised("OSError"))
            /\ Log(p, <<Event("save", rotated[p].token, "error")>>)
            /\ UNCHANGED <<storage, lastSaver>>
    /\ UNCHANGED <<utcnow, lock, api_token, now, rotated>>

\* get_token_exit giving the lock back on a return only.
get_token_exit_on_return_only(p) ==
    /\ pc[p] = "gt_exit"
    /\ lock' = IF result[p].kind = "return" THEN NoCaller ELSE lock
    /\ Ends(p, result[p])
    /\ Log(p, <<Event("release", 0, "")>>)
    /\ UNCHANGED <<utcnow, storage, lastSaver>>

\* with self._lock:  (leaving, by return or by exception)   (line 90)
get_token_exit(p) ==
    /\ pc[p] = "gt_exit"
    /\ lock' = NoCaller
    /\ Ends(p, result[p])
    /\ Log(p, <<Event("release", 0, "")>>)
    /\ UNCHANGED <<utcnow, storage, lastSaver>>

-----------------------------------------------------------------------------
(* keep_alive() *)

\* keep_alive() is called and reaches `with self._lock:`   (lines 123-124)
keep_alive_call(p) ==
    /\ pc[p] = "idle"
    /\ pc' = [pc EXCEPT ![p] = "ka_acquire"]
    /\ result' = [result EXCEPT ![p] = NoResult]
    /\ trace' = [trace EXCEPT ![p] = <<>>]
    /\ UNCHANGED <<utcnow, storage, lock, lastSaver, api_token, now, rotated>>

\* keep_alive_acquire entering the locked section without waiting for
\* the lock.
keep_alive_acquire_unguarded(p) ==
    /\ pc[p] = "ka_acquire"
    /\ lock' = p
    /\ pc' = [pc EXCEPT ![p] = "ka_load"]
    /\ Log(p, <<Event("acquire", 0, "")>>)
    /\ UNCHANGED <<utcnow, storage, lastSaver, api_token, now, rotated, result>>

\* with self._lock:  (entering)                 (line 124)
keep_alive_acquire(p) ==
    /\ pc[p] = "ka_acquire"
    /\ lock = NoCaller
    /\ lock' = p
    /\ pc' = [pc EXCEPT ![p] = "ka_load"]
    /\ Log(p, <<Event("acquire", 0, "")>>)
    /\ UNCHANGED <<utcnow, storage, lastSaver, api_token, now, rotated, result>>

\* api_token = self._storage.load()            (line 125)
keep_alive_load(p) ==
    /\ pc[p] = "ka_load"
    /\ Log(p, <<Event("load", 0, "")>>)
    /\ IF storage = NoRecord
       THEN /\ Leaves(p, "ka_exit", Raised("ApiTokenStorageException"))
            /\ UNCHANGED api_token
       ELSE /\ pc' = [pc EXCEPT ![p] = "ka_check"]
            /\ api_token' = [api_token EXCEPT ![p] = storage]
            /\ UNCHANGED result
    /\ UNCHANGED <<utcnow, storage, lock, lastSaver, now, rotated>>

\* keep_alive_check returning at once on a Fresh record, as get_token
\* does.
keep_alive_check_fresh_returns(p) ==
    /\ pc[p] = "ka_check"
    /\ now' = [now EXCEPT ![p] = utcnow]
    /\ IF _raise_if_expired(api_token[p], utcnow)
       THEN Leaves(p, "ka_exit", Raised("TokenExpiredException"))
       ELSE IF ~_in_rotation_window(api_token[p], utcnow)
       THEN Leaves(p, "ka_exit", Returned(0))
       ELSE /\ pc' = [pc EXCEPT ![p] = "ka_heartbeat"]
            /\ UNCHANGED result
    /\ UNCHANGED <<utcnow, storage, lock, lastSaver, api_token, rotated, trace>>

\* now = utcnow(); self._raise_if_expired(api_token, now)   (lines 126-128)
keep_alive_check(p) ==
    /\ pc[p] = "ka_check"
    /\ now' = [now EXCEPT ![p] = utcnow]
    /\ IF _raise_if_expired(api_token[p], utcnow)
       THEN Leaves(p, "ka_exit", Raised("TokenExpiredException"))
       ELSE /\ pc' = [pc EXCEPT ![p] = "ka_heartbeat"]
            /\ UNCHANGED result
    /\ UNCHANGED <<utcnow, storage, lock, lastSaver, api_token, rotated, trace>>

\* keep_alive_heartbeat going on to rotate without reading can_rotate.
keep_alive_heartbeat_ignores_can_rotate(p, ans) ==
    LET status == heartbeat(api_token[p].token, ans)
        called == <<HeartbeatEvent(api_token[p].token, status)>>
    IN  /\ pc[p] = "ka_heartbeat"
        /\ IF ~status.ok
           THEN /\ Leaves(p, "ka_exit", Raised("ApiException"))
                /\ Log(p, called)
           ELSE IF status.is_expired
           THEN /\ Leaves(p, "ka_exit", Raised("TokenExpiredException"))
                /\ Log(p, called)
           ELSE /\ pc' = [pc EXCEPT ![p] = "ka_rotate"]
                /\ Log(p, called)
                /\ UNCHANGED result
        /\ UNCHANGED <<utcnow, storage, lock, lastSaver, api_token, now, rotated>>

\* status = self._api.heartbeat(api_token.token) and the tests on it
\*                                               (lines 130-141)
keep_alive_heartbeat(p, ans) ==
    LET status == heartbeat(api_token[p].token, ans)
        called == <<HeartbeatEvent(api_token[p].token, status)>>
    IN  /\ pc[p] = "ka_heartbeat"
        /\ IF ~status.ok
           THEN /\ Leaves(p, "ka_exit", Raised("ApiException"))
                /\ Log(p, called)
           ELSE IF status.is_expired
           THEN /\ Leaves(p, "ka_exit", Raised("TokenExpiredException"))
                /\ Log(p, called)
           ELSE IF ~status.can_rotate
           THEN /\ Leaves(p, "ka_exit", Returned(0))
                /\ Log(p, called \o WarnEvents(api_token[p], now[p]))
           ELSE /\ pc' = [pc EXCEPT ![p] = "ka_rotate"]
                /\ Log(p, called)
                /\ UNCHANGED result
        /\ UNCHANGED <<utcnow, storage, lock, lastSaver, api_token, now, rotated>>

\* keep_alive_rotate deleting the stored record when rotate raises.
keep_alive_rotate_error_deletes(p, ans) ==
    /\ pc[p] = "ka_rotate"
    /\ IF ~ans.ok
       THEN /\ Leaves(p, "ka_exit", Raised("ApiException"))
            /\ Log(p, <<Event("rotate", api_token[p].token, "error")>>)
            /\ storage' = NoRecord
            /\ UNCHANGED rotated
       ELSE /\ pc' = [pc EXCEPT ![p] = "ka_save"]
            /\ rotated' = [rotated EXCEPT ![p] = rotate(api_token[p].token, ans)]
            /\ Log(p, <<Event("rotate", api_token[p].token, "ok")>>)
            /\ UNCHANGED <<result, storage>>
    /\ UNCHANGED <<utcnow, lock, lastSaver, api_token, now>>

\* rotated = self._api.rotate(api_token.token); new_api_token = ...
\*                                               (lines 143-147)
keep_alive_rotate(p, ans) ==
    /\ pc[p] = "ka_rotate"
    /\ IF ~ans.ok
       THEN /\ Leaves(p, "ka_exit", Raised("ApiException"))
            /\ Log(p, <<Event("rotate", api_token[p].token, "error")>>)
            /\ UNCHANGED rotated
       ELSE /\ pc' = [pc EXCEPT ![p] = "ka_save"]
            /\ rotated' = [rotated EXCEPT ![p] = rotate(api_token[p].token, ans)]
            /\ Log(p, <<Event("rotate", api_token[p].token, "ok")>>)
            /\ UNCHANGED result
    /\ UNCHANGED <<utcnow, storage, lock, lastSaver, api_token, now>>

\* self._storage.save(new_api_token)           (line 148)
keep_alive_save(p, ok) ==
    /\ pc[p] = "ka_save"
    /\ IF ok
       THEN /\ storage' = rotated[p]
            /\ lastSaver' = p
            /\ Leaves(p, "ka_exit", Returned(0))
            /\ Log(p, <<Event("save", rotated[p].token, "ok")>>)
       ELSE /\ Leaves(p, "ka_exit", Raised("OSError"))
            /\ Log(p, <<Event("save", rotated[p].token, "error")>>)
            /\ UNCHANGED <<storage, lastSaver>>
    /\ UNCHANGED <<utcnow, lock, api_token, now, rotated>>

\* with self._lock:  (leaving, by return or by exception)   (line 124)
keep_alive_exit(p) ==
    /\ pc[p] = "ka_exit"
    /\ lock' = NoCaller
    /\ Ends(p, result[p])
    /\ Log(p, <<Event("release", 0, "")>>)
    /\ UNCHANGED <<utcnow, storage, lastSaver>>

-----------------------------------------------------------------------------
(* configure() *)

\* configure_heartbeat without the is_expired test.
configure_heartbeat_ignores_is_expired(p, token, ans) ==
    /\ pc[p] = "idle"
    /\ trace' = [trace EXCEPT ![p] = <<HeartbeatEvent(token, ans)>>]
    /\ IF ~ans.ok
       THEN Ends(p, Raised("ApiException"))
       ELSE /\ pc' = [pc EXCEPT ![p] = "cf_save"]
            /\ result' = [result EXCEPT ![p] = NoResult]
            /\ api_token' = [api_token EXCEPT ![p] = ApiToken(token, ans.expires_at)]
            /\ UNCHANGED <<now, rotated>>
    /\ UNCHANGED <<utcnow, storage, lock, lastSaver>>

\* configure(token) is called: status = self._api.heartbeat(token); the
\* is_expired test; api_token = ApiToken(...)     (lines 46-55)
configure_heartbeat(p, token, ans) ==
    /\ pc[p] = "idle"
    /\ trace' = [trace EXCEPT ![p] = <<HeartbeatEvent(token, ans)>>]
    /\ IF ~ans.ok
       THEN Ends(p, Raised("ApiException"))
       ELSE IF ans.is_expired
       THEN Ends(p, Raised("TokenExpiredException"))
       ELSE /\ pc' = [pc EXCEPT ![p] = "cf_save"]
            /\ result' = [result EXCEPT ![p] = NoResult]
            /\ api_token' = [api_token EXCEPT ![p] = ApiToken(token, ans.expires_at)]
            /\ UNCHANGED <<now, rotated>>
    /\ UNCHANGED <<utcnow, storage, lock, lastSaver>>

\* configure_save storing an expiry of its own making instead of the
\* heartbeat's.
configure_save_fabricated_expiry(p, ok) ==
    /\ pc[p] = "cf_save"
    /\ IF ok
       THEN /\ storage' = ApiToken(api_token[p].token, utcnow + ROTATION_WINDOW)
            /\ lastSaver' = p
            /\ Ends(p, Returned(0))
            /\ Log(p, <<Event("save", api_token[p].token, "ok")>>)
       ELSE /\ Ends(p, Raised("OSError"))
            /\ Log(p, <<Event("save", api_token[p].token, "error")>>)
            /\ UNCHANGED <<storage, lastSaver>>
    /\ UNCHANGED <<utcnow, lock>>

\* self._storage.save(api_token)               (line 56)
configure_save(p, ok) ==
    /\ pc[p] = "cf_save"
    /\ IF ok
       THEN /\ storage' = api_token[p]
            /\ lastSaver' = p
            /\ Ends(p, Returned(0))
            /\ Log(p, <<Event("save", api_token[p].token, "ok")>>)
       ELSE /\ Ends(p, Raised("OSError"))
            /\ Log(p, <<Event("save", api_token[p].token, "error")>>)
            /\ UNCHANGED <<storage, lastSaver>>
    /\ UNCHANGED <<utcnow, lock>>

-----------------------------------------------------------------------------
(* configure_from_env() and is_configured() *)

\* os.getenv(env_var) of a variable that is not set.
Unset == 0

\* What os.getenv(env_var) may return.
EnvValues == {Unset} \cup ConfigTokens

ReturnedBool(b) == [kind |-> IF b THEN "True" ELSE "False", token |-> 0]

\* configure_from_env(env_var, overwrite) is called: token = os.getenv(env_var);
\* the `token is None` test and the `not overwrite` test   (lines 58-67).
\* api_token[p].token holds the local `token` until configure builds the
\* record.
configure_from_env_call(p, value, overwrite) ==
    /\ pc[p] = "idle"
    /\ trace' = [trace EXCEPT ![p] =
                    <<Event("configure_from_env", 0, IF overwrite THEN "overwrite" ELSE "keep"),
                      Event("getenv", value, IF value = Unset THEN "unset" ELSE "set")>>]
    /\ IF value = Unset
       THEN Ends(p, ReturnedBool(FALSE))
       ELSE /\ pc' = [pc EXCEPT ![p] = IF overwrite THEN "ce_heartbeat" ELSE "ce_is_configured"]
            /\ result' = [result EXCEPT ![p] = NoResult]
            /\ api_token' = [api_token EXCEPT ![p] = ApiToken(value, 0)]
            /\ UNCHANGED <<now, rotated>>
    /\ UNCHANGED <<utcnow, storage, lock, lastSaver>>

\* is_configured taking an empty storage for a configured one.
configure_from_env_is_configured_inverted(p) ==
    /\ pc[p] = "ce_is_configured"
    /\ Log(p, <<Event("load", 0, "")>>)
    /\ IF storage = NoRecord
       THEN Ends(p, ReturnedBool(FALSE))
       ELSE /\ pc' = [pc EXCEPT ![p] = "ce_heartbeat"]
            /\ UNCHANGED <<result, api_token, now, rotated>>
    /\ UNCHANGED <<utcnow, storage, lock, lastSaver>>

\* self.is_configured(): self._storage.load() succeeds or raises
\* ApiTokenStorageException                     (lines 67-68, 73-78)
configure_from_env_is_configured(p) ==
    /\ pc[p] = "ce_is_configured"
    /\ Log(p, <<Event("load", 0, "")>>)
    /\ IF storage # NoRecord
       THEN Ends(p, ReturnedBool(FALSE))
       ELSE /\ pc' = [pc EXCEPT ![p] = "ce_heartbeat"]
            /\ UNCHANGED <<result, api_token, now, rotated>>
    /\ UNCHANGED <<utcnow, storage, lock, lastSaver>>

\* self.configure(token): status = self._api.heartbeat(token); the
\* is_expired test; api_token = ApiToken(...)     (lines 70, 47-55)
configure_from_env_heartbeat(p, ans) ==
    /\ pc[p] = "ce_heartbeat"
    /\ Log(p, <<HeartbeatEvent(api_token[p].token, ans)>>)
    /\ IF ~ans.ok
       THEN Ends(p, Raised("ApiException"))
       ELSE IF ans.is_expired
       THEN Ends(p, Raised("TokenExpiredException"))
       ELSE /\ pc' = [pc EXCEPT ![p] = "ce_save"]
            /\ api_token' = [api_token EXCEPT ![p] = ApiToken(api_token[p].token, ans.expires_at)]
            /\ UNCHANGED <<result, now, rotated>>
    /\ UNCHANGED <<utcnow, storage, lock, lastSaver>>

\* self._storage.save(api_token); return True   (lines 56, 71)
configure_from_env_save(p, ok) ==
    /\ pc[p] = "ce_save"
    /\ IF ok
       THEN /\ storage' = api_token[p]
            /\ lastSaver' = p
            /\ Ends(p, ReturnedBool(TRUE))
            /\ Log(p, <<Event("save", api_token[p].token, "ok")>>)
       ELSE /\ Ends(p, Raised("OSError"))
            /\ Log(p, <<Event("save", api_token[p].token, "error")>>)
            /\ UNCHANGED <<storage, lastSaver>>
    /\ UNCHANGED <<utcnow, lock>>

-----------------------------------------------------------------------------
Next ==
    \/ \E t \in Instants : tick(t)
    \/ \E p \in Callers : get_token_load(p)
    \/ \E p \in Callers : get_token_check(p)
    \/ \E p \in Callers : get_token_acquire(p)
    \/ \E p \in Callers : get_token_reload(p)
    \/ \E p \in Callers : get_token_recheck(p)
    \/ \E p \in Callers, ans \in HeartbeatAnswers : get_token_heartbeat(p, ans)
    \/ \E p \in Callers, ans \in RotateAnswers : get_token_rotate(p, ans)
    \/ \E p \in Callers, ok \in BOOLEAN : get_token_save(p, ok)
    \/ \E p \in Callers : get_token_exit(p)
    \/ \E p \in Callers : keep_alive_call(p)
    \/ \E p \in Callers : keep_alive_acquire(p)
    \/ \E p \in Callers : keep_alive_load(p)
    \/ \E p \in Callers : keep_alive_check(p)
    \/ \E p \in Callers, ans \in HeartbeatAnswers : keep_alive_heartbeat(p, ans)
    \/ \E p \in Callers, ans \in RotateAnswers : keep_alive_rotate(p, ans)
    \/ \E p \in Callers, ok \in BOOLEAN : keep_alive_save(p, ok)
    \/ \E p \in Callers : keep_alive_exit(p)
    \/ \E p \in Callers, token \in ConfigTokens, ans \in HeartbeatAnswers : configure_heartbeat(p, token, ans)
    \/ \E p \in Callers, ok \in BOOLEAN : configure_save(p, ok)

Spec == Init /\ [][Next]_vars

-----------------------------------------------------------------------------
(* Concurrent get_token() calls on a record in the rotation window *)

\* The callers of the concurrent scenario: each calls get_token() once.
ConcCallers == {1, 2, 3}

\* The storage holds a record that is in the rotation window at the first
\* instant, and nobody has called yet.
ConcInit ==
    /\ utcnow = InitExpiresAt - ROTATION_WINDOW
    /\ storage = ApiToken(InitToken, InitExpiresAt)
    /\ lock = NoCaller
    /\ lastSaver = NoCaller
    /\ pc = [p \in ConcCallers |-> "idle"]
    /\ api_token = [p \in ConcCallers |-> NoRecord]
    /\ now = [p \in ConcCallers |-> 0]
    /\ rotated = [p \in ConcCallers |-> NoRecord]
    /\ result = [p \in ConcCallers |-> NoResult]
    /\ trace = [p \in ConcCallers |-> <<>>]

\* The clock stays short of the instant at which the initial record is
\* Expired; the heartbeat answers not expired and rotatable; rotate and
\* save answer whatever they can.
ConcNext ==
    \/ \E t \in Instants : t < InitExpiresAt - EXPIRATION_MARGIN /\ tick(t)
    \/ \E p \in ConcCallers : result[p] = NoResult /\ get_token_load(p)
    \/ \E p \in ConcCallers : get_token_check(p)
    \/ \E p \in ConcCallers : get_token_acquire(p)
    \/ \E p \in ConcCallers : get_token_reload(p)
    \/ \E p \in ConcCallers : get_token_recheck(p)
    \/ \E p \in ConcCallers, ans \in HeartbeatAnswers :
          ans.ok /\ ~ans.is_expired /\ ans.can_rotate /\ get_token_heartbeat(p, ans)
    \/ \E p \in ConcCallers, ans \in RotateAnswers : get_token_rotate(p, ans)
    \/ \E p \in ConcCallers, ok \in BOOLEAN : get_token_save(p, ok)
    \/ \E p \in ConcCallers : get_token_exit(p)

ConcSpec == ConcInit /\ [][ConcNext]_vars

-----------------------------------------------------------------------------
(* One caller and an issuer whose expires_at the client's clock can reach *)

\* An expires_at that is not later than the last instants of the clock.
EarlyExpiresAt == Jump

IssuerExpiries == Expiries \cup {EarlyExpiresAt}

IssuerHeartbeatAnswers ==
    {[ok |-> FALSE, is_expired |-> FALSE, can_rotate |-> FALSE, expires_at |-> 0]}
    \cup [ok : {TRUE}, is_expired : BOOLEAN, can_rotate : BOOLEAN, expires_at : IssuerExpiries]

IssuerRotateAnswers ==
    {[ok |-> FALSE, expires_at |-> 0]} \cup [ok : {TRUE}, expires_at : IssuerExpiries]

SoloCallers == {1}

SoloInit ==
    /\ utcnow = 0
    /\ storage \in {NoRecord, ApiToken(InitToken, InitExpiresAt)}
    /\ lock = NoCaller
    /\ lastSaver = NoCaller
    /\ pc = [p \in SoloCallers |-> "idle"]
    /\ api_token = [p \in SoloCallers |-> NoRecord]
    /\ now = [p \in SoloCallers |-> 0]
    /\ rotated = [p \in SoloCallers |-> NoRecord]
    /\ result = [p \in SoloCallers |-> NoResult]
    /\ trace = [p \in SoloCallers |-> <<>>]

SoloNext ==
    \/ \E t \in Instants : tick(t)
    \/ \E p \in SoloCallers : get_token_load(p)
    \/ \E p \in SoloCallers : get_token_check(p)
    \/ \E p \in SoloCallers : get_token_acquire(p)
    \/ \E p \in SoloCallers : get_token_reload(p)
    \/ \E p \in SoloCallers : get_token_recheck(p)
    \/ \E p \in SoloCallers, ans \in IssuerHeartbeatAnswers : get_token_heartbeat(p, ans)
    \/ \E p \in SoloCallers, ans \in IssuerRotateAnswers : get_token_rotate(p, ans)
    \/ \E p \in SoloCallers, ok \in BOOLEAN : get_token_save(p, ok)
    \/ \E p \in SoloCallers : get_token_exit(p)
    \/ \E p \in SoloCallers : keep_alive_call(p)
    \/ \E p \in SoloCallers : keep_alive_acquire(p)
    \/ \E p \in SoloCallers : keep_alive_load(p)
    \/ \E p \in SoloCallers : keep_alive_check(p)
    \/ \E p \in SoloCallers, ans \in IssuerHeartbeatAnswers : keep_alive_heartbeat(p, ans)
    \/ \E p \in SoloCallers, ans \in IssuerRotateAnswers : keep_alive_rotate(p, ans)
    \/ \E p \in SoloCallers, ok \in BOOLEAN : keep_alive_save(p, ok)
    \/ \E p \in SoloCallers : keep_alive_exit(p)
    \/ \E p \in SoloCallers, token \in ConfigTokens, ans \in IssuerHeartbeatAnswers :
          configure_heartbeat(p, token, ans)
    \/ \E p \in SoloCallers, ok \in BOOLEAN : configure_save(p, ok)
    \/ \E p \in SoloCallers, value \in EnvValues, overwrite \in BOOLEAN :
          configure_from_env_call(p, value, overwrite)
    \/ \E p \in SoloCallers : configure_from_env_is_configured(p)
    \/ \E p \in SoloCallers, ans \in IssuerHeartbeatAnswers : configure_from_env_heartbeat(p, ans)
    \/ \E p \in SoloCallers, ok \in BOOLEAN : configure_from_env_save(p, ok)

SoloSpec == SoloInit /\ [][SoloNext]_vars

-----------------------------------------------------------------------------
(* One uncontended call of each manager, as a function of what it is given: *)
(* the stored record st and the call c = the arguments, the clock readings  *)
(* t1 <= t2, the answers hb and rot of the issuer and whether save works.   *)
(* The outcome is the result, the calls made in order and the record the    *)
(* storage holds afterwards.                                                *)

Out(res, calls, st) == [result |-> res, calls |-> calls, storage |-> st]

Load == Event("load", 0, "")

\* ---- class ApiTokenManager (threading.Lock), managers.py lines 24-156 ----

ApiTokenManager_configure(st, c) ==
    LET status == c.hb
        beat == <<HeartbeatEvent(c.token, status)>>
    IN  IF ~status.ok THEN Out(Raised("ApiException"), beat, st)
        ELSE IF status.is_expired THEN Out(Raised("TokenExpiredException"), beat, st)
        ELSE IF ~c.sv THEN Out(Raised("OSError"), beat \o <<Event("save", c.token, "error")>>, st)
        ELSE Out(Returned(0), beat \o <<Event("save", c.token, "ok")>>,
                 ApiToken(c.token, status.expires_at))

ApiTokenManager_is_configured(st, c) == Out(ReturnedBool(st # NoRecord), <<Load>>, st)

ApiTokenManager_configure_from_env(st, c) ==
    LET called == <<Event("configure_from_env", 0, IF c.overwrite THEN "overwrite" ELSE "keep"),
                    Event("getenv", c.env, IF c.env = Unset THEN "unset" ELSE "set")>>
        probe == ApiTokenManager_is_configured(st, c)
        done == ApiTokenManager_configure(st, [c EXCEPT !.token = c.env])
    IN  IF c.env = Unset THEN Out(ReturnedBool(FALSE), called, st)
        ELSE IF ~c.overwrite /\ probe.result = ReturnedBool(TRUE)
        THEN Out(ReturnedBool(FALSE), called \o probe.calls, st)
        ELSE Out(IF done.result = Returned(0) THEN ReturnedBool(TRUE) ELSE done.result,
                 called \o (IF c.overwrite THEN <<>> ELSE probe.calls) \o done.calls,
                 done.storage)

\* The body of `with self._lock:` in get_token, lines 91-121.
ApiTokenManager_get_token_locked(st, c) ==
    LET status == heartbeat(st.token, c.hb)
        beat == <<Load, HeartbeatEvent(st.token, status)>>
        new_api_token == rotate(st.token, c.rot)
    IN  IF _raise_if_expired(st, c.t2) THEN Out(Raised("TokenExpiredException"), <<Load>>, st)
        ELSE IF ~_in_rotation_window(st, c.t2) THEN Out(Returned(st.token), <<Load>>, st)
        ELSE IF ~status.ok THEN Out(Raised("ApiException"), beat, st)
        ELSE IF status.is_expired THEN Out(Raised("TokenExpiredException"), beat, st)
        ELSE IF ~status.can_rotate
        THEN Out(Returned(st.token), beat \o WarnEvents(st, c.t2), st)
        ELSE IF ~c.rot.ok
        THEN Out(Raised("ApiException"), beat \o <<Event("rotate", st.token, "error")>>, st)
        ELSE IF ~c.sv
        THEN Out(Raised("OSError"),
                 beat \o <<Event("rotate", st.token, "ok"),
                           Event("save", new_api_token.token, "error")>>, st)
        ELSE Out(Returned(new_api_token.token),
                 beat \o <<Event("rotate", st.token, "ok"),
                           Event("save", new_api_token.token, "ok")>>, new_api_token)

ApiTokenManager_get_token(st, c) ==
    LET locked == ApiTokenManager_get_token_locked(st, c)
    IN  IF st = NoRecord THEN Out(Raised("ApiTokenStorageException"), <<Load>>, st)
        ELSE IF _raise_if_expired(st, c.t1) THEN Out(Raised("TokenExpiredException"), <<Load>>, st)
        ELSE IF ~_in_rotation_window(st, c.t1) THEN Out(Returned(st.token), <<Load>>, st)
        ELSE Out(locked.result,
                 <<Load, Event("acquire", 0, "")>> \o locked.calls \o <<Event("release", 0, "")>>,
                 locked.storage)

\* The body of `with self._lock:` in keep_alive, lines 125-148.
ApiTokenManager_keep_alive_locked(st, c) ==
    LET status == heartbeat(st.token, c.hb)
        beat == <<Load, HeartbeatEvent(st.token, status)>>
        new_api_token == rotate(st.token, c.rot)
    IN  IF st = NoRecord THEN Out(Raised("ApiTokenStorageException"), <<Load>>, st)
        ELSE IF _raise_if_expired(st, c.t1) THEN Out(Raised("TokenExpiredException"), <<Load>>, st)
        ELSE IF ~status.ok THEN Out(Raised("ApiException"), beat, st)
        ELSE IF status.is_expired THEN Out(Raised("TokenExpiredException"), beat, st)
        ELSE IF ~status.can_rotate
        THEN Out(Returned(0), beat \o WarnEvents(st, c.t1), st)
        ELSE IF ~c.rot.ok
        THEN Out(Raised("ApiException"), beat \o <<Event("rotate", st.token, "error")>>, st)
        ELSE IF ~c.sv
        THEN Out(Raised("OSError"),
                 beat \o <<Event("rotate", st.token, "ok"),
                           Event("save", new_api_token.token, "error")>>, st)
        ELSE Out(Returned(0),
                 beat \o <<Event("rotate", st.token, "ok"),
                           Event("save", new_api_token.token, "ok")>>, new_api_token)

ApiTokenManager_keep_alive(st, c) ==
    LET locked == ApiTokenManager_keep_alive_locked(st, c)
    IN  Out(locked.result,
            <<Event("acquire", 0, "")>> \o locked.calls \o <<Event("release", 0, "")>>,
            locked.storage)

\* ---- class AsyncApiTokenManager (asyncio.Lock), managers.py lines 159-278 ----

ASYNC_EXPIRATION_MARGIN == 1

\* AsyncApiTokenManager._raise_if_expired with the margin left out.
Async_raise_if_expired_no_margin(tok, n) == n >= tok.expires_at

Async_raise_if_expired(tok, n) == n >= tok.expires_at - ASYNC_EXPIRATION_MARGIN

Async_in_rotation_window(tok, n) == n >= (tok.expires_at - ROTATION_WINDOW)

AsyncWarnEvents(tok, n) ==
    IF Async_in_rotation_window(tok, n) THEN <<Event("warn", 0, "")>> ELSE <<>>

AsyncApiTokenManager_configure(st, c) ==
    LET status == c.hb
        beat == <<HeartbeatEvent(c.token, status)>>
        api_token_ == ApiToken(c.token, status.expires_at)
    IN  CASE ~status.ok -> Out(Raised("ApiException"), beat, st)
          [] status.ok /\ status.is_expired -> Out(Raised("TokenExpiredException"), beat, st)
          [] status.ok /\ ~status.is_expired /\ c.sv
               -> Out(Returned(0), beat \o <<Event("save", api_token_.token, "ok")>>, api_token_)
          [] status.ok /\ ~status.is_expired /\ ~c.sv
               -> Out(Raised("OSError"), beat \o <<Event("save", api_token_.token, "error")>>, st)

AsyncApiTokenManager_is_configured(st, c) ==
    IF st = NoRecord THEN Out(ReturnedBool(FALSE), <<Load>>, st)
    ELSE Out(ReturnedBool(TRUE), <<Load>>, st)

AsyncApiTokenManager_configure_from_env(st, c) ==
    LET called == <<Event("configure_from_env", 0, IF c.overwrite THEN "overwrite" ELSE "keep"),
                    Event("getenv", c.env, IF c.env = Unset THEN "unset" ELSE "set")>>
        probe == AsyncApiTokenManager_is_configured(st, c)
        done == AsyncApiTokenManager_configure(st, [c EXCEPT !.token = c.env])
    IN  CASE c.env = Unset -> Out(ReturnedBool(FALSE), called, st)
          [] c.env # Unset /\ c.overwrite
               -> Out(IF done.result.kind = "return" THEN ReturnedBool(TRUE) ELSE done.result,
                      called \o done.calls, done.storage)
          [] c.env # Unset /\ ~c.overwrite /\ probe.result.kind = "True"
               -> Out(ReturnedBool(FALSE), called \o probe.calls, st)
          [] c.env # Unset /\ ~c.overwrite /\ probe.result.kind = "False"
               -> Out(IF done.result.kind = "return" THEN ReturnedBool(TRUE) ELSE done.result,
                      called \o probe.calls \o done.calls, done.storage)

\* The body of `async with self._lock:` in get_token, lines 213-243.
AsyncApiTokenManager_get_token_locked(st, c) ==
    LET status == heartbeat(st.token, c.hb)
        beat == <<Load, HeartbeatEvent(st.token, status)>>
        rotated_ == rotate(st.token, c.rot)
        turn == <<Event("rotate", st.token, IF c.rot.ok THEN "ok" ELSE "error")>>
    IN  IF Async_raise_if_expired(st, c.t2)
        THEN Out(Raised("TokenExpiredException"), <<Load>>, st)
        ELSE IF ~Async_in_rotation_window(st, c.t2)
        THEN Out(Returned(st.token), <<Load>>, st)
        ELSE IF ~status.ok
        THEN Out(Raised("ApiException"), beat, st)
        ELSE IF status.is_expired
        THEN Out(Raised("TokenExpiredException"), beat, st)
        ELSE IF ~status.can_rotate
        THEN Out(Returned(st.token), beat \o AsyncWarnEvents(st, c.t2), st)
        ELSE IF ~c.rot.ok
        THEN Out(Raised("ApiException"), beat \o turn, st)
        ELSE IF c.sv
        THEN Out(Returned(rotated_.token),
                 beat \o turn \o <<Event("save", rotated_.token, "ok")>>, rotated_)
        ELSE Out(Raised("OSError"),
                 beat \o turn \o <<Event("save", rotated_.token, "error")>>, st)

AsyncApiTokenManager_get_token(st, c) ==
    LET locked == AsyncApiTokenManager_get_token_locked(st, c)
    IN  IF st = NoRecord THEN Out(Raised("ApiTokenStorageException"), <<Load>>, st)
        ELSE IF Async_raise_if_expired(st, c.t1)
        THEN Out(Raised("TokenExpiredException"), <<Load>>, st)
        ELSE IF ~Async_in_rotation_window(st, c.t1)
        THEN Out(Returned(st.token), <<Load>>, st)
        ELSE Out(locked.result,
                 <<Load, Event("acquire", 0, "")>> \o locked.calls \o <<Event("release", 0, "")>>,
                 locked.storage)

\* The body of `async with self._lock:` in keep_alive, lines 247-270.
AsyncApiTokenManager_keep_alive_locked(st, c) ==
    LET status == heartbeat(st.token, c.hb)
        beat == <<Load, HeartbeatEvent(st.token, status)>>
        rotated_ == rotate(st.token, c.rot)
        turn == <<Event("rotate", st.token, IF c.rot.ok THEN "ok" ELSE "error")>>
    IN  IF st = NoRecord THEN Out(Raised("ApiTokenStorageException"), <<Load>>, st)
        ELSE IF Async_raise_if_expired(st, c.t1)
        THEN Out(Raised("TokenExpiredException"), <<Load>>, st)
        ELSE IF ~status.ok
        THEN Out(Raised("ApiException"), beat, st)
        ELSE IF status.is_expired
        THEN Out(Raised("TokenExpiredException"), beat, st)
        ELSE IF ~status.can_rotate
        THEN Out(Returned(0), beat \o AsyncWarnEvents(st, c.t1), st)
        ELSE IF ~c.rot.ok
        THEN Out(Raised("ApiException"), beat \o turn, st)
        ELSE IF c.sv
        THEN Out(Returned(0), beat \o turn \o <<Event("save", rotated_.token, "ok")>>, rotated_)
        ELSE Out(Raised("OSError"),
                 beat \o turn \o <<Event("save", rotated_.token, "error")>>, st)

AsyncApiTokenManager_keep_alive(st, c) ==
    LET locked == AsyncApiTokenManager_keep_alive_locked(st, c)
    IN  Out(locked.result,
            <<Event("acquire", 0, "")>> \o locked.calls \o <<Event("release", 0, "")>>,
            locked.storage)

\* ---- the two managers side by side ----

\* 1 is the ApiTokenManager, 2 the AsyncApiTokenManager.
Managers == {1, 2}

Calls(c) ==
    [m \in Managers |->
        IF m = 1
        THEN CASE c.op = "configure" -> ApiTokenManager_configure(storage[m], c)
               [] c.op = "configure_from_env" -> ApiTokenManager_configure_from_env(storage[m], c)
               [] c.op = "is_configured" -> ApiTokenManager_is_configured(storage[m], c)
               [] c.op = "get_token" -> ApiTokenManager_get_token(storage[m], c)
               [] c.op = "keep_alive" -> ApiTokenManager_keep_alive(storage[m], c)
        ELSE CASE c.op = "configure" -> AsyncApiTokenManager_configure(storage[m], c)
               [] c.op = "configure_from_env" -> AsyncApiTokenManager_configure_from_env(storage[m], c)
               [] c.op = "is_configured" -> AsyncApiTokenManager_is_configured(storage[m], c)
               [] c.op = "get_token" -> AsyncApiTokenManager_get_token(storage[m], c)
               [] c.op = "keep_alive" -> AsyncApiTokenManager_keep_alive(storage[m], c)]

\* Each manager has a storage of its own; both start from the same record.
PairInit ==
    /\ utcnow = 0
    /\ \E st \in {NoRecord, ApiToken(InitToken, InitExpiresAt)} : storage = [m \in Managers |-> st]
    /\ lock = NoCaller
    /\ lastSaver = NoCaller
    /\ pc = [m \in Managers |-> "idle"]
    /\ api_token = [m \in Managers |-> NoRecord]
    /\ now = [m \in Managers |-> 0]
    /\ rotated = [m \in Managers |-> NoRecord]
    /\ result = [m \in Managers |-> NoResult]
    /\ trace = [m \in Managers |-> <<>>]

\* The same call is made on both managers, with the same clock readings
\* (the first is the current instant, the second t2), the same answers of
\* the issuer and the same outcome of save.
PairCall(op, token, env, overwrite, t2, hb, rot, sv) ==
    LET c == [op |-> op, token |-> token, env |-> env, overwrite |-> overwrite,
              t1 |-> utcnow, t2 |-> t2, hb |-> hb, rot |-> rot, sv |-> sv]
        out == Calls(c)
    IN  /\ t2 >= utcnow
        /\ utcnow' = t2
        /\ storage' = [m \in Managers |-> out[m].storage]
        /\ result' = [m \in Managers |-> out[m].result]
        /\ trace' = [m \in Managers |-> out[m].calls]
        /\ UNCHANGED <<lock, lastSaver, pc, api_token, now, rotated>>

NoHeartbeat == [ok |-> FALSE, is_expired |-> FALSE, can_rotate |-> FALSE, expires_at |-> 0]

NoRotate == [ok |-> FALSE, expires_at |-> 0]

PairNext ==
    \/ \E t \in Instants : tick(t)
    \/ \E token \in ConfigTokens, hb \in IssuerHeartbeatAnswers, sv \in BOOLEAN :
          PairCall("configure", token, Unset, FALSE, utcnow, hb, NoRotate, sv)
    \/ \E env \in EnvValues, overwrite \in BOOLEAN, hb \in IssuerHeartbeatAnswers, sv \in BOOLEAN :
          PairCall("configure_from_env", InitToken, env, overwrite, utcnow, hb, NoRotate, sv)
    \/ PairCall("is_configured", InitToken, Unset, FALSE, utcnow, NoHeartbeat, NoRotate, TRUE)
    \/ \E t2 \in Instants, hb \in IssuerHeartbeatAnswers, rot \in IssuerRotateAnswers, sv \in BOOLEAN :
          PairCall("get_token", InitToken, Unset, FALSE, t2, hb, rot, sv)
    \/ \E hb \in IssuerHeartbeatAnswers, rot \in IssuerRotateAnswers, sv \in BOOLEAN :
          PairCall("keep_alive", InitToken, Unset, FALSE, utcnow, hb, rot, sv)

PairSpec == PairInit /\ [][PairNext]_vars

-----------------------------------------------------------------------------
(* The storages, storages.py.

   In the specification of this section one process uses an
   InMemoryApiTokenStorage and a JsonFileApiTokenStorage, and `storage` is
   the record of what the two keep:
     memory  InMemoryApiTokenStorage._api_token, NoRecord for None
     path    the file at JsonFileApiTokenStorage._path
     temp    the file at temp_path of the save() in progress
     left    whether a temporary file of an earlier save() is still in the
             directory
   api_token[p] is the argument of the process's current (or else last)
   save(), result[p] the outcome of its current (or else last) call and
   trace[p] the history since its last save() or delete() began: the steps
   of that call, then the load() calls and the restarts that followed. *)

\* A file: whether it exists, the members of the JSON object written to it
\* so far, and whether the object's closing brace has been written.
File(exists, members, closed) == [exists |-> exists, members |-> members, closed |-> closed]

NoFile == File(FALSE, <<>>, FALSE)

Member(key, value) == [key |-> key, value |-> value]

\* datetime to ISO-8601 text as pydantic serialises it: the date, then the
\* time of day (here in days and minutes).
isoformat(expires_at) == <<expires_at \div 1440, expires_at % 1440>>

\* An ISO-8601 parser that keeps the date and drops the time of day.
fromisoformat_date_only(text) == text[1] * 1440

\* ISO-8601 text to datetime as pydantic validates it.
fromisoformat(text) == text[1] * 1440 + text[2]

\* model_dump_json with the camel-case alias of CamelizedBaseModel.
model_dump_json_camelized(r) ==
    <<Member("token", <<r.token>>), Member("expiresAt", isoformat(r.expires_at))>>

\* ApiToken.model_dump_json: the fields of ApiToken in declaration order
\* under their own names (ApiToken is a plain BaseModel, no alias).
model_dump_json(r) ==
    <<Member("token", <<r.token>>), Member("expires_at", isoformat(r.expires_at))>>

Keys(members) == {members[i].key : i \in 1..Len(members)}

ValueOf(members, key) == members[CHOOSE i \in 1..Len(members) : members[i].key = key].value

\* Whether ApiToken.model_validate_json accepts the text of file f: a
\* complete JSON object with a string "token" and an ISO-8601 "expires_at";
\* members under other keys are ignored.
Validates(f) ==
    /\ f.closed
    /\ {"token", "expires_at"} \subseteq Keys(f.members)
    /\ Len(ValueOf(f.members, "token")) = 1
    /\ Len(ValueOf(f.members, "expires_at")) = 2

\* ApiToken.model_validate_json on a text it accepts.
model_validate_json(f) ==
    ApiToken(ValueOf(f.members, "token")[1], fromisoformat(ValueOf(f.members, "expires_at")))

\* What a storage call returned (NoRecord for None) or raised.
StorageReturned(r) ==
    [kind |-> "return", token |-> r.token, expires_at |-> r.expires_at, message |-> ""]

StorageRaised(exception, message) ==
    [kind |-> exception, token |-> 0, expires_at |-> 0, message |-> message]

StorageNoResult == StorageRaised("none", "")

\* InMemoryApiTokenStorage.load
InMemoryApiTokenStorage_load(memory) ==
    IF memory = NoRecord
    THEN StorageRaised("ApiTokenStorageException", "No API token stored in memory")
    ELSE StorageReturned(memory)

\* JsonFileApiTokenStorage.load
JsonFileApiTokenStorage_load(f) ==
    IF ~f.exists
    THEN StorageRaised("ApiTokenStorageException", "JSON file does not exist")
    ELSE IF ~Validates(f)
    THEN StorageRaised("ApiTokenStorageException", "Invalid API token JSON file format")
    ELSE StorageReturned(model_validate_json(f))

\* ApiTokenManager.is_configured over a storage whose load() has outcome res.
is_configured(res) == res.kind # "ApiTokenStorageException"

\* The records the process saves.
SaveRecords == {ApiToken(InitToken, InitExpiresAt), ApiToken(InitToken + 1, FarExpiresAt)}

\* What the file at _path may hold before the process starts: nothing, a
\* record saved earlier, or a file some other program wrote: one with a
\* further member, one with the key "expiresAt", a truncated one.
InitFiles ==
    { NoFile,
      File(TRUE, model_dump_json(ApiToken(InitToken, InitExpiresAt)), TRUE),
      File(TRUE, model_dump_json(ApiToken(InitToken, InitExpiresAt)) \o <<Member("comment", <<0>>)>>, TRUE),
      File(TRUE, model_dump_json_camelized(ApiToken(InitToken, InitExpiresAt)), TRUE),
      File(TRUE, <<Member("token", <<InitToken>>)>>, FALSE) }

StorageCallers == {1}

\* How many times the process is replaced by a new one after a save() or
\* delete() began.
MaxRestarts == 1

StorageInit ==
    /\ utcnow = 0
    /\ storage \in { [memory |-> m, path |-> f, temp |-> NoFile, left |-> FALSE] :
                        m \in {NoRecord, ApiToken(InitToken, InitExpiresAt)}, f \in InitFiles }
    /\ lock = NoCaller
    /\ lastSaver = NoCaller
    /\ pc = [p \in StorageCallers |-> "idle"]
    /\ api_token = [p \in StorageCallers |-> NoRecord]
    /\ now = [p \in StorageCallers |-> 0]
    /\ rotated = [p \in StorageCallers |-> NoRecord]
    /\ result = [p \in StorageCallers |-> StorageNoResult]
    /\ trace = [p \in StorageCallers |-> <<>>]

\* A whole call of a save() or delete() that is one statement long.
StorageCall(p, ev, arg, answer, st, res) ==
    /\ storage' = st
    /\ result' = [result EXCEPT ![p] = res]
    /\ trace' = [trace EXCEPT ![p] = <<Event(ev, arg.token, answer)>>]
    /\ api_token' = [api_token EXCEPT ![p] = arg]
    /\ UNCHANGED <<utcnow, lock, lastSaver, pc, now, rotated>>

\* How many times the history has the event ev.
Times(tr, ev) == Cardinality({i \in DOMAIN tr : tr[i].ev = ev})

Restarts(tr) == Times(tr, "restart")

\* A whole call of load(). The history keeps one load() of each storage
\* per process: a further one has the same outcome.
StorageRead(p, ev, res) ==
    /\ Times(trace[p], ev) <= Restarts(trace[p])
    /\ result' = [result EXCEPT ![p] = res]
    /\ trace' = [trace EXCEPT ![p] = Append(@, Event(ev, res.token, res.kind))]
    /\ UNCHANGED <<utcnow, storage, lock, lastSaver, pc, api_token, now, rotated>>

InMemory_load(p) ==
    /\ pc[p] = "idle"
    /\ StorageRead(p, "memory.load", InMemoryApiTokenStorage_load(storage.memory))

InMemory_save(p, r) ==
    /\ pc[p] = "idle"
    /\ StorageCall(p, "memory.save", r, "ok", [storage EXCEPT !.memory = r], StorageReturned(NoRecord))

\* A delete() that leaves the record in place.
InMemory_delete_keeps(p) ==
    /\ pc[p] = "idle"
    /\ StorageCall(p, "memory.delete", NoRecord, "ok", storage, StorageReturned(NoRecord))

InMemory_delete(p) ==
    /\ pc[p] = "idle"
    /\ StorageCall(p, "memory.delete", NoRecord, "ok", [storage EXCEPT !.memory = NoRecord],
                   StorageReturned(NoRecord))

JsonFile_load(p) ==
    /\ pc[p] = "idle"
    /\ StorageRead(p, "file.load", JsonFileApiTokenStorage_load(storage.path))

\* unlink(); FileNotFoundError is passed over.
JsonFile_delete(p) ==
    /\ pc[p] = "idle"
    /\ StorageCall(p, "file.delete", NoRecord,
                   IF storage.path.exists THEN "ok" ELSE "FileNotFoundError",
                   [storage EXCEPT !.path = NoFile],
                   StorageReturned(NoRecord))

\* A step of JsonFileApiTokenStorage.save: the file system call `ev`
\* answered `answer`, the call goes on at statement `next`.
SaveStep(p, ev, answer, next, st, res) ==
    /\ storage' = st
    /\ pc' = [pc EXCEPT ![p] = next]
    /\ result' = [result EXCEPT ![p] = res]
    /\ trace' = [trace EXCEPT ![p] = Append(@, Event(ev, api_token[p].token, answer))]
    /\ UNCHANGED <<utcnow, lock, lastSaver, api_token, now, rotated>>

\* save(api_token) is called.
JsonFile_save_call(p, r) ==
    /\ pc[p] = "idle"
    /\ pc' = [pc EXCEPT ![p] = "sv_mkdir"]
    /\ api_token' = [api_token EXCEPT ![p] = r]
    /\ result' = [result EXCEPT ![p] = StorageNoResult]
    /\ trace' = [trace EXCEPT ![p] = <<Event("file.save", r.token,
                                              IF storage.path.exists THEN "overwrite" ELSE "create")>>]
    /\ UNCHANGED <<utcnow, storage, lock, lastSaver, now, rotated>>

\* self._path.parent.mkdir(parents=True, exist_ok=True)
JsonFile_save_mkdir(p, ok) ==
    /\ pc[p] = "sv_mkdir"
    /\ IF ok
       THEN SaveStep(p, "mkdir", "ok", "sv_mkstemp", storage, result[p])
       ELSE SaveStep(p, "mkdir", "error", "idle", storage, StorageRaised("OSError", "mkdir"))

\* tempfile.mkstemp, before the try statement.
atomic_write_text_mkstemp(p, ok) ==
    /\ pc[p] = "sv_mkstemp"
    /\ IF ok
       THEN SaveStep(p, "mkstemp", "ok", "sv_write",
                     [storage EXCEPT !.temp = File(TRUE, <<>>, FALSE)], result[p])
       ELSE SaveStep(p, "mkstemp", "error", "idle", storage, StorageRaised("OSError", "mkstemp"))

\* file.write(text): n members of the text reach the file, the rest stays
\* in the buffer.
atomic_write_text_write(p, n, ok) ==
    /\ pc[p] = "sv_write"
    /\ LET text == model_dump_json(api_token[p])
           st == [storage EXCEPT !.temp = File(TRUE, SubSeq(text, 1, n), FALSE)]
       IN  /\ n < Len(text)
           /\ IF ok
              THEN SaveStep(p, "write", "ok", "sv_flush", st, result[p])
              ELSE SaveStep(p, "write", "error", "sv_remove", st, StorageRaised("OSError", "write"))

\* file.flush(): the whole text is in the file, or the flush fails having
\* written n members of it.
atomic_write_text_flush(p, n, ok) ==
    /\ pc[p] = "sv_flush"
    /\ LET text == model_dump_json(api_token[p])
       IN  IF ok
           THEN /\ n = Len(text)
                /\ SaveStep(p, "flush", "ok", "sv_fsync",
                            [storage EXCEPT !.temp = File(TRUE, text, TRUE)], result[p])
           ELSE /\ n >= Len(storage.temp.members)
                /\ n < Len(text)
                /\ SaveStep(p, "flush", "error", "sv_remove",
                            [storage EXCEPT !.temp = File(TRUE, SubSeq(text, 1, n), FALSE)],
                            StorageRaised("OSError", "flush"))

\* os.fsync(file.fileno()), then the end of the with statement.
atomic_write_text_fsync(p, ok) ==
    /\ pc[p] = "sv_fsync"
    /\ IF ok
       THEN SaveStep(p, "fsync", "ok", "sv_chmod", storage, result[p])
       ELSE SaveStep(p, "fsync", "error", "sv_remove", storage, StorageRaised("OSError", "fsync"))

\* os.chmod(temp_path, 0o600); its OSError is passed over.
atomic_write_text_chmod(p, ok) ==
    /\ pc[p] = "sv_chmod"
    /\ SaveStep(p, "chmod", IF ok THEN "ok" ELSE "error", "sv_replace", storage, result[p])

\* A replace that copies the text to _path member by member: its failure
\* leaves the first member there.
atomic_write_text_replace_copying(p, ok) ==
    /\ pc[p] = "sv_replace"
    /\ IF ok
       THEN SaveStep(p, "replace", "ok", "sv_remove",
                     [storage EXCEPT !.path = storage.temp, !.temp = NoFile],
                     StorageReturned(NoRecord))
       ELSE SaveStep(p, "replace", "error", "sv_remove",
                     [storage EXCEPT !.path = File(TRUE, SubSeq(storage.temp.members, 1, 1), FALSE)],
                     StorageRaised("OSError", "replace"))

\* os.replace(temp_path, self._path)
atomic_write_text_replace(p, ok) ==
    /\ pc[p] = "sv_replace"
    /\ IF ok
       THEN SaveStep(p, "replace", "ok", "sv_remove",
                     [storage EXCEPT !.path = storage.temp, !.temp = NoFile],
                     StorageReturned(NoRecord))
       ELSE SaveStep(p, "replace", "error", "sv_remove", storage, StorageRaised("OSError", "replace"))

\* finally: os.remove(temp_path); FileNotFoundError and OSError are passed
\* over, then the call returns or the exception in flight goes on.
atomic_write_text_remove(p, ok) ==
    /\ pc[p] = "sv_remove"
    /\ IF ~storage.temp.exists
       THEN /\ ok
            /\ SaveStep(p, "remove", "FileNotFoundError", "idle", storage, result[p])
       ELSE IF ok
       THEN SaveStep(p, "remove", "ok", "idle", [storage EXCEPT !.temp = NoFile], result[p])
       ELSE SaveStep(p, "remove", "error", "idle",
                     [storage EXCEPT !.temp = NoFile, !.left = TRUE], result[p])

\* The process ends, in the middle of a save() or between calls, and a
\* new one makes its storages: InMemoryApiTokenStorage() and
\* JsonFileApiTokenStorage(path) for the same path.
restart(p) ==
    /\ Restarts(trace[p]) < MaxRestarts
    /\ storage' = [storage EXCEPT !.memory = NoRecord,
                                  !.temp = NoFile,
                                  !.left = storage.left \/ storage.temp.exists]
    /\ pc' = [pc EXCEPT ![p] = "idle"]
    /\ result' = [result EXCEPT ![p] = IF pc[p] = "idle" THEN @ ELSE StorageRaised("interrupted", "")]
    /\ trace' = [trace EXCEPT ![p] = Append(@, Event("restart", 0, pc[p]))]
    /\ UNCHANGED <<utcnow, lock, lastSaver, api_token, now, rotated>>

StorageNext ==
    \E p \in StorageCallers :
        \/ InMemory_load(p)
        \/ \E r \in SaveRecords : InMemory_save(p, r)
        \/ InMemory_delete(p)
        \/ JsonFile_load(p)
        \/ JsonFile_delete(p)
        \/ \E r \in SaveRecords : JsonFile_save_call(p, r)
        \/ \E ok \in BOOLEAN : JsonFile_save_mkdir(p, ok)
        \/ \E ok \in BOOLEAN : atomic_write_text_mkstemp(p, ok)
        \/ \E n \in 0..2, ok \in BOOLEAN : atomic_write_text_write(p, n, ok)
        \/ \E n \in 0..2, ok \in BOOLEAN : atomic_write_text_flush(p, n, ok)
        \/ \E ok \in BOOLEAN : atomic_write_text_fsync(p, ok)
        \/ \E ok \in BOOLEAN : atomic_write_text_chmod(p, ok)
        \/ \E ok \in BOOLEAN : atomic_write_text_replace(p, ok)
        \/ \E ok \in BOOLEAN : atomic_write_text_remove(p, ok)
        \/ restart(p)

StorageSpec == StorageInit /\ [][StorageNext]_vars

-----------------------------------------------------------------------------
(* Cursor pagination, client.py and reports_api.py.

   In the specification of this section a Client, an AsyncClient and a
   ReportsApiSession each make one get_rtb_conversions() call, one after
   the other, against a server that answers the k-th request of a call with
   its k-th page, and
     storage       is the server: the sequence of its pages
     api_token[c]  the params the call of c hands to the pagination loop
     now[c]        the local request_params (params of the next request)
     rotated[c]    the local resp_data / res (the last response's data)
     result[c]     the rows the call has produced so far, and whether the
                   call has ended
     trace[c]      the params of the requests c has sent, in order. *)

MAX_CURSOR_ROWS == 10000

MAX_CURSOR_ROWS_LIMIT == 10000

\* The most pages the server has.
MaxPages == 3

ClientClasses == {"Client", "AsyncClient", "ReportsApiSession"}

\* JSON null / None as the value of nextCursor.
None == "None"

\* The cursors a page can carry; the empty string is one.
Cursors == {"", "123"}

\* The rows a page can carry (rows are told apart by a number).
PageRows == {<<>>, <<1>>, <<3, 2>>}

Page(rows, nextCursor) == [rows |-> rows, nextCursor |-> nextCursor]

NoPage == Page(<<>>, None)

\* The servers: pages 1..n-1 carry a cursor, page n carries null.
Servers ==
    UNION { { s \in [1..n -> {Page(r, c) : r \in PageRows, c \in Cursors \cup {None}}] :
                /\ \A k \in 1..(n - 1) : s[k].nextCursor # None
                /\ s[n].nextCursor = None }
            : n \in 1..MaxPages }

\* dict.update / {**a, **b}: the items of b over those of a.
Update(a, b) == [k \in DOMAIN a \cup DOMAIN b |-> IF k \in DOMAIN b THEN b[k] ELSE a[k]]

\* The params get_rtb_conversions() builds from its arguments.
ConversionsParams(day_from, day_to, convention_type) ==
    [dayFrom |-> day_from, dayTo |-> day_to, countConvention |-> convention_type]

NoParams == [limit |-> 0]

Produced(rows, done) == [rows |-> rows, done |-> done]

CursorInit ==
    /\ utcnow = 0
    /\ storage \in Servers
    /\ lock = NoCaller
    /\ lastSaver = NoCaller
    /\ pc = [c \in ClientClasses |-> "idle"]
    /\ api_token = [c \in ClientClasses |-> NoParams]
    /\ now = [c \in ClientClasses |-> NoParams]
    /\ rotated = [c \in ClientClasses |-> NoPage]
    /\ result = [c \in ClientClasses |-> Produced(<<>>, FALSE)]
    /\ trace = [c \in ClientClasses |-> <<>>]

\* get_rtb_conversions(adv_hash, day_from, day_to, convention_type) of c is
\* called (no other call is under way) and enters the pagination loop with
\* request_params.
get_rtb_conversions(c, day_to, request_params) ==
    /\ \A d \in ClientClasses : pc[d] \in {"idle", "done"}
    /\ pc[c] = "idle"
    /\ pc' = [pc EXCEPT ![c] = "request"]
    /\ api_token' = [api_token EXCEPT ![c] = ConversionsParams(1, day_to, "ATTRIBUTED")]
    /\ now' = [now EXCEPT ![c] = request_params]
    /\ UNCHANGED <<utcnow, storage, lock, lastSaver, rotated, result, trace>>

\* The request with the params `params` is sent and the server's next page
\* is the data of the response.
Get(c, params) ==
    /\ Len(trace[c]) < Len(storage)
    /\ trace' = [trace EXCEPT ![c] = Append(@, params)]
    /\ rotated' = [rotated EXCEPT ![c] = storage[Len(trace[c]) + 1]]

\* The rows of the last response go to the caller, after those already
\* produced.
Yield(c) == result' = [result EXCEPT ![c] = Produced(@.rows \o rotated[c].rows, FALSE)]

\* ---- Client._get_list_of_dicts_from_cursor, client.py lines 110-122 ----

\* request_params = {"limit": MAX_CURSOR_ROWS}; request_params.update(params)
Client_get_rtb_conversions(day_to) ==
    /\ pc["Client"] = "idle"
    /\ get_rtb_conversions("Client", day_to,
        Update([limit |-> MAX_CURSOR_ROWS], ConversionsParams(1, day_to, "ATTRIBUTED")))

\* resp_data = self._get_dict(path, params=request_params)
Client_get_dict ==
    /\ pc["Client"] = "request"
    /\ Get("Client", now["Client"])
    /\ pc' = [pc EXCEPT !["Client"] = "rows"]
    /\ UNCHANGED <<utcnow, storage, lock, lastSaver, api_token, now, result>>

\* yield from resp_data["rows"]
Client_yield ==
    /\ pc["Client"] = "rows"
    /\ Yield("Client")
    /\ pc' = [pc EXCEPT !["Client"] = "cursor"]
    /\ UNCHANGED <<utcnow, storage, lock, lastSaver, api_token, now, rotated, trace>>

\* The cursor test of the loop stopping at a cursor that is null or empty.
Client_next_cursor_falsy ==
    LET next_cursor == rotated["Client"].nextCursor
    IN  /\ pc["Client"] = "cursor"
        /\ IF next_cursor = None \/ next_cursor = ""
           THEN /\ pc' = [pc EXCEPT !["Client"] = "done"]
                /\ result' = [result EXCEPT !["Client"] = Produced(@.rows, TRUE)]
                /\ UNCHANGED now
           ELSE /\ pc' = [pc EXCEPT !["Client"] = "request"]
                /\ now' = [now EXCEPT !["Client"] = Update(@, [nextCursor |-> next_cursor])]
                /\ UNCHANGED result
        /\ UNCHANGED <<utcnow, storage, lock, lastSaver, api_token, rotated, trace>>

\* next_cursor = resp_data["nextCursor"]; if next_cursor is None: break;
\* request_params["nextCursor"] = next_cursor
Client_next_cursor ==
    LET next_cursor == rotated["Client"].nextCursor
    IN  /\ pc["Client"] = "cursor"
        /\ IF next_cursor = None
           THEN /\ pc' = [pc EXCEPT !["Client"] = "done"]
                /\ result' = [result EXCEPT !["Client"] = Produced(@.rows, TRUE)]
                /\ UNCHANGED now
           ELSE /\ pc' = [pc EXCEPT !["Client"] = "request"]
                /\ now' = [now EXCEPT !["Client"] = Update(@, [nextCursor |-> next_cursor])]
                /\ UNCHANGED result
        /\ UNCHANGED <<utcnow, storage, lock, lastSaver, api_token, rotated, trace>>

\* ---- AsyncClient._get_list_of_dicts_from_cursor, client.py lines 296-309 ----

AsyncClient_get_rtb_conversions(day_to) ==
    /\ pc["AsyncClient"] = "idle"
    /\ get_rtb_conversions("AsyncClient", day_to,
        Update([limit |-> MAX_CURSOR_ROWS], ConversionsParams(1, day_to, "ATTRIBUTED")))

\* resp_data = await self._get_dict(path, params=request_params)
AsyncClient_get_dict ==
    /\ pc["AsyncClient"] = "request"
    /\ Get("AsyncClient", now["AsyncClient"])
    /\ pc' = [pc EXCEPT !["AsyncClient"] = "rows"]
    /\ UNCHANGED <<utcnow, storage, lock, lastSaver, api_token, now, result>>

\* for row in resp_data["rows"]: yield row
AsyncClient_yield ==
    /\ pc["AsyncClient"] = "rows"
    /\ Yield("AsyncClient")
    /\ pc' = [pc EXCEPT !["AsyncClient"] = "cursor"]
    /\ UNCHANGED <<utcnow, storage, lock, lastSaver, api_token, now, rotated, trace>>

\* The cursor step making the params of the next request anew, of
\* nextCursor and limit alone.
AsyncClient_next_cursor_fresh_params ==
    LET next_cursor == rotated["AsyncClient"].nextCursor
    IN  /\ pc["AsyncClient"] = "cursor"
        /\ IF next_cursor = None
           THEN /\ pc' = [pc EXCEPT !["AsyncClient"] = "done"]
                /\ result' = [result EXCEPT !["AsyncClient"] = Produced(@.rows, TRUE)]
                /\ UNCHANGED now
           ELSE /\ pc' = [pc EXCEPT !["AsyncClient"] = "request"]
                /\ now' = [now EXCEPT !["AsyncClient"] =
                              [nextCursor |-> next_cursor, limit |-> MAX_CURSOR_ROWS]]
                /\ UNCHANGED result
        /\ UNCHANGED <<utcnow, storage, lock, lastSaver, api_token, rotated, trace>>

\* next_cursor = resp_data["nextCursor"]; if next_cursor is None: break;
\* request_params["nextCursor"] = next_cursor
AsyncClient_next_cursor ==
    LET next_cursor == rotated["AsyncClient"].nextCursor
    IN  /\ pc["AsyncClient"] = "cursor"
        /\ IF next_cursor = None
           THEN /\ pc' = [pc EXCEPT !["AsyncClient"] = "done"]
                /\ result' = [result EXCEPT !["AsyncClient"] = Produced(@.rows, TRUE)]
                /\ UNCHANGED now
           ELSE /\ pc' = [pc EXCEPT !["AsyncClient"] = "request"]
                /\ now' = [now EXCEPT !["AsyncClient"] = Update(@, [nextCursor |-> next_cursor])]
                /\ UNCHANGED result
        /\ UNCHANGED <<utcnow, storage, lock, lastSaver, api_token, rotated, trace>>

\* ---- ReportsApiSession._get_from_cursor, reports_api.py lines 134-144 ----

\* params={**params, 'limit': MAX_CURSOR_ROWS_LIMIT}
ReportsApiSession_get_rtb_conversions(day_to) ==
    /\ pc["ReportsApiSession"] = "idle"
    /\ get_rtb_conversions("ReportsApiSession", day_to,
        Update(ConversionsParams(1, day_to, "ATTRIBUTED"), [limit |-> MAX_CURSOR_ROWS_LIMIT]))

\* res = self._get(path, params=...), the first and the later ones
ReportsApiSession_get ==
    /\ pc["ReportsApiSession"] = "request"
    /\ Get("ReportsApiSession", now["ReportsApiSession"])
    /\ pc' = [pc EXCEPT !["ReportsApiSession"] = "rows"]
    /\ UNCHANGED <<utcnow, storage, lock, lastSaver, api_token, now, result>>

\* rows = res['rows'] / rows.extend(res['rows'])
ReportsApiSession_extend ==
    /\ pc["ReportsApiSession"] = "rows"
    /\ Yield("ReportsApiSession")
    /\ pc' = [pc EXCEPT !["ReportsApiSession"] = "cursor"]
    /\ UNCHANGED <<utcnow, storage, lock, lastSaver, api_token, now, rotated, trace>>

\* while res['nextCursor']: the params of the next request are made anew,
\* of nextCursor and limit; return rows
ReportsApiSession_while ==
    LET nextCursor == rotated["ReportsApiSession"].nextCursor
    IN  /\ pc["ReportsApiSession"] = "cursor"
        /\ IF nextCursor = None \/ nextCursor = ""
           THEN /\ pc' = [pc EXCEPT !["ReportsApiSession"] = "done"]
                /\ result' = [result EXCEPT !["ReportsApiSession"] = Produced(@.rows, TRUE)]
                /\ UNCHANGED now
           ELSE /\ pc' = [pc EXCEPT !["ReportsApiSession"] = "request"]
                /\ now' = [now EXCEPT !["ReportsApiSession"] =
                              [nextCursor |-> nextCursor, limit |-> MAX_CURSOR_ROWS_LIMIT]]
                /\ UNCHANGED result
        /\ UNCHANGED <<utcnow, storage, lock, lastSaver, api_token, rotated, trace>>

CursorNext ==
    \/ \E day_to \in {1, 2} : Client_get_rtb_conversions(day_to)
    \/ Client_get_dict
    \/ Client_yield
    \/ Client_next_cursor
    \/ \E day_to \in {1, 2} : AsyncClient_get_rtb_conversions(day_to)
    \/ AsyncClient_get_dict
    \/ AsyncClient_yield
    \/ AsyncClient_next_cursor
    \/ \E day_to \in {1, 2} : ReportsApiSession_get_rtb_conversions(day_to)
    \/ ReportsApiSession_get
    \/ ReportsApiSession_extend
    \/ ReportsApiSession_while

\* A call that has begun goes on: the loop is the only thing its thread or
\* task does.
CursorSpec == CursorInit /\ [][CursorNext]_vars /\ WF_vars(CursorNext)

-----------------------------------------------------------------------------
(* Response validation and the X-Resource-Usage header, client.py,
   exceptions.py and reports_api.py.

   In the specification of this section one response of the server is
   validated once, by the client's _validate_response or by the one of
   ReportsApiSession, or its X-Resource-Usage header is parsed once by one
   of the two copies of parse_resource_usage_header, and
     storage  is the response: its status code and its two headers
     pc       "idle" before the function is applied, "done" after
     result   what the function did: for a validation the exception raised
              (or none), the version its message names, its limits and the
              warnings emitted; for a parse the dict returned
   and a string the code takes apart is the sequence of its characters. *)

API_VERSION == "v5"

ReportsApi_API_VERSION == "v2"

\* The most segments of an X-Resource-Usage header.
MaxSegments == 3

\* The empty dict, {}.
EmptyDict == [key \in {} |-> 0]

\* The segments a header is made of: four of the form
\* METRIC-window=used/limit (the second with the metric, window and limit of
\* the first, the third with its metric), and malformed ones.
Segments ==
    { <<"W", "-", "1", "=", "1", ".", "5", "/", "9">>,
      <<"W", "-", "1", "=", "2", "/", "9">>,
      <<"W", "-", "2", "=", "0", "2", ".", "0", "/", "9">>,
      <<"D", "-", "1", "=", "-", "2", "/", "5">>,
      <<>>,
      <<"W", "-", "1", "=", "x", "/", "9">>,
      <<"W", "1", "=", "1", "/", "9">>,
      <<"W", "-", "1", "=", "1", "9">>,
      <<"W", "-", "1", "=", "1", "/", "9", "=", "2">> }

\* str.join: the parts with the separator between them.
RECURSIVE join(_, _)
join(sep, parts) ==
    IF Len(parts) = 0 THEN <<>>
    ELSE IF Len(parts) = 1 THEN parts[1]
    ELSE parts[1] \o <<sep>> \o join(sep, Tail(parts))

\* headers.get("X-Resource-Usage") of a response without the header: None,
\* written so that it compares with the sequences of characters.
NoHeader == <<None>>

\* The values of the X-Resource-Usage header: none, the empty string, and
\* up to MaxSegments segments joined by ";".
UsageHeaders ==
    {NoHeader} \cup { join(";", parts) : parts \in UNION { [1..n -> Segments] : n \in 0..MaxSegments } }

\* str.split(sep): the parts of s between the occurrences of sep.
RECURSIVE split(_, _)
split(s, sep) ==
    IF \A i \in 1..Len(s) : s[i] # sep THEN <<s>>
    ELSE LET i == CHOOSE j \in 1..Len(s) : s[j] = sep /\ \A k \in 1..(j - 1) : s[k] # sep
         IN  <<SubSeq(s, 1, i - 1)>> \o split(SubSeq(s, i + 1, Len(s)), sep)

Digits == {"0", "1", "2", "5", "9"}

DigitValue(c) == IF c = "0" THEN 0 ELSE IF c = "1" THEN 1 ELSE IF c = "2" THEN 2
                 ELSE IF c = "5" THEN 5 ELSE 9

\* The number the digits of s write in base ten.
RECURSIVE int(_)
int(s) == IF Len(s) = 0 THEN 0 ELSE 10 * int(SubSeq(s, 1, Len(s) - 1)) + DigitValue(s[Len(s)])

RECURSIVE Pow10(_)
Pow10(n) == IF n = 0 THEN 1 ELSE 10 * Pow10(n - 1)

\* A number as a fraction in lowest decimal terms: numerator over a power
\* of ten.
RECURSIVE Number(_, _)
Number(numerator, denominator) ==
    IF denominator > 1 /\ numerator % 10 = 0
    THEN Number(numerator \div 10, denominator \div 10)
    ELSE <<numerator, denominator>>

\* float(s) of a string of digits, "." and "-" (and letters, which no
\* number of these headers has): whether it is a number, and the number.
Unsigned(s) == IF Len(s) > 0 /\ s[1] = "-" THEN Tail(s) ELSE s

IsFloat(s) ==
    LET parts == split(Unsigned(s), ".")
    IN  /\ Len(parts) \in {1, 2}
        /\ \A i \in 1..Len(parts) : \A j \in 1..Len(parts[i]) : parts[i][j] \in Digits
        /\ \E i \in 1..Len(parts) : Len(parts[i]) > 0

float(s) ==
    LET parts == split(Unsigned(s), ".")
        fraction == IF Len(parts) = 2 THEN parts[2] ELSE <<>>
        sign == IF Len(s) > 0 /\ s[1] = "-" THEN -1 ELSE 1
    IN  Number(sign * (int(parts[1]) * Pow10(Len(fraction)) + int(fraction)), Pow10(Len(fraction)))

\* Whether the body of the loop raises ValueError on the segment `line`:
\* an unpacking of other than two parts, or float() of what is no number.
RaisesValueError(line) ==
    \/ Len(split(line, "=")) # 2
    \/ Len(split(split(line, "=")[1], "-")) # 2
    \/ Len(split(split(line, "=")[2], "/")) # 2
    \/ ~IsFloat(split(split(line, "=")[2], "/")[1])

Get2(dict, key) == IF key \in DOMAIN dict THEN dict[key] ELSE EmptyDict

\* result.setdefault(metric, {}).setdefault(time_span, {})[limit] = used
\* (filled is the code's result)
SetUsed(filled, metric, time_span, limit, used) ==
    LET spans == Get2(filled, metric)
        limits == Get2(spans, time_span)
    IN  Update(filled,
               [m \in {metric} |-> Update(spans,
                                          [t \in {time_span} |-> Update(limits,
                                                                        [l \in {limit} |-> used])])])

\* The loop of the parser over the segments from the i-th on, a ValueError
\* ending it with what it has filled in so far.
RECURSIVE ParseLinesPartial(_, _, _)
ParseLinesPartial(lines, i, filled) ==
    IF i > Len(lines) THEN filled
    ELSE IF RaisesValueError(lines[i]) THEN filled
    ELSE LET right == split(lines[i], "=")[1]
             left == split(lines[i], "=")[2]
         IN  ParseLinesPartial(lines, i + 1,
                 SetUsed(filled, split(right, "-")[1], split(right, "-")[2],
                         split(left, "/")[2], float(split(left, "/")[1])))

\* for line in header.split(";"): ... except ValueError: return {}
RECURSIVE ParseLines(_, _, _)
ParseLines(lines, i, filled) ==
    IF i > Len(lines) THEN filled
    ELSE IF RaisesValueError(lines[i]) THEN EmptyDict
    ELSE LET right == split(lines[i], "=")[1]
             left == split(lines[i], "=")[2]
         IN  ParseLines(lines, i + 1,
                 SetUsed(filled, split(right, "-")[1], split(right, "-")[2],
                         split(left, "/")[2], float(split(left, "/")[1])))

\* exceptions.py, lines 51-64
parse_resource_usage_header(header) ==
    IF header = NoHeader \/ header = <<>> THEN EmptyDict
    ELSE ParseLines(split(header, ";"), 1, EmptyDict)

\* reports_api.py, lines 78-94
ReportsApiSession_parse_resource_usage_header(header) ==
    IF header = NoHeader \/ header = <<>> THEN EmptyDict
    ELSE ParseLines(split(header, ";"), 1, EmptyDict)

\* The status codes of a response and the values of its
\* X-Current-Api-Version header.
StatusCodes == {200, 404, 410, 429}

VersionHeaders == {None, "v2", "v5", "v6"}

Response(status_code, version, usage) ==
    [status_code |-> status_code, version |-> version, usage |-> usage]

\* What a validation did: the exception it raised ("none": it returned),
\* the newest version the exception's message names, the exception's
\* limits, and the warnings emitted (each the version it names).
Outcome(exception, newest_version, limits, warned) ==
    [exception |-> exception, newest_version |-> newest_version, limits |-> limits,
     warned |-> warned]

\* What a parse did.
Parsed(limits) == Outcome("none", None, limits, <<>>)

\* _validate_response, client.py lines 452-489
_validate_response(response) ==
    IF response.status_code = 410
    THEN Outcome("ApiVersionMismatchException", response.version, EmptyDict, <<>>)
    ELSE IF response.status_code = 429
    THEN Outcome("ApiRateLimitException", None,
                 parse_resource_usage_header(response.usage), <<>>)
    ELSE IF response.status_code >= 400
    THEN Outcome("ApiRequestException", None, EmptyDict, <<>>)
    ELSE Outcome("none", None, EmptyDict,
                 IF response.version # None /\ response.version # API_VERSION
                 THEN <<response.version>> ELSE <<>>)

\* ReportsApiSession._validate_response, reports_api.py lines 96-113
ReportsApiSession_validate_response(response) ==
    LET warned == IF response.version # ReportsApi_API_VERSION
                  THEN <<response.version>> ELSE <<>>
    IN  IF response.status_code < 400
        THEN Outcome("none", None, EmptyDict, warned)
        ELSE IF response.status_code = 410
        THEN Outcome("ReportsApiException", response.version, EmptyDict, warned)
        ELSE IF response.status_code = 429
        THEN Outcome("ReportsApiRateLimitException", None,
                     ReportsApiSession_parse_resource_usage_header(response.usage), warned)
        ELSE Outcome("ReportsApiRequestException", None, EmptyDict, warned)

ResponseInit ==
    /\ utcnow = 0
    /\ storage \in { Response(status_code, version, usage) :
                        status_code \in StatusCodes, version \in VersionHeaders,
                        usage \in UsageHeaders }
    /\ lock = NoCaller
    /\ lastSaver = NoCaller
    /\ pc = "idle"
    /\ api_token = NoRecord
    /\ now = 0
    /\ rotated = NoRecord
    /\ result = Parsed(EmptyDict)
    /\ trace = <<>>

\* One function is applied to the response or to its header; trace names
\* the function.
Apply(function, outcome) ==
    /\ pc' = "done"
    /\ result' = outcome
    /\ trace' = <<function>>
    /\ UNCHANGED <<utcnow, storage, lock, lastSaver, api_token, now, rotated>>

Client_validate_response ==
    /\ pc = "idle"
    /\ Apply("client._validate_response", _validate_response(storage))

ReportsApi_validate_response ==
    /\ pc = "idle"
    /\ Apply("ReportsApiSession._validate_response", ReportsApiSession_validate_response(storage))

Exceptions_parse ==
    /\ pc = "idle"
    /\ Apply("exceptions.parse_resource_usage_header",
             Parsed(parse_resource_usage_header(storage.usage)))

ReportsApi_parse ==
    /\ pc = "idle"
    /\ Apply("ReportsApiSession.parse_resource_usage_header",
             Parsed(ReportsApiSession_parse_resource_usage_header(storage.usage)))

ResponseNext ==
    \/ Client_validate_response
    \/ ReportsApi_validate_response
    \/ Exceptions_parse
    \/ ReportsApi_parse

ResponseSpec == ResponseInit /\ [][ResponseNext]_vars

-----------------------------------------------------------------------------
(* fill_missing_days, helpers/date.py.

   In the specification of this section fill_missing_days is applied once
   to arguments drawn from bounded sets, and
     storage  is the arguments: data, template, day_from, day_to
     pc       "idle" before the call, "done" after
     result   what the call did: the list returned, or the exception
   A day string 'YYYY-MM-DD' is the sequence <<year, month, day>> of its
   three numbers, so that strings compare as Python compares them; a date
   is a record. *)

\* The most rows of the data.
MaxRows == 3

\* The day strings of the data and of day_from, day_to.
DayStrings == {<<2020, 1, 30>>, <<2020, 1, 31>>, <<2020, 2, 1>>, <<2020, 2, 2>>}

\* day_from=None / day_to=None, written so that it compares with the day
\* strings.
NoDay == <<None>>

\* datetime.date(year, month, day)
Date(year, month, day) == [year |-> year, month |-> month, day |-> day]

\* datetime.datetime.strptime(s, '%Y-%m-%d').date()
strptime(s) == Date(s[1], s[2], s[3])

\* date.strftime('%Y-%m-%d')
strftime(date) == <<date.year, date.month, date.day>>

\* The days of the months of 2020 the model has, and the ordinal of the
\* last day of 2019.
DaysInMonth(month) == IF month = 1 THEN 31 ELSE 29

DaysBefore2020 == 737424

Dates == { Date(2020, month, day) : month \in {1, 2}, day \in 1..31 } \
         { Date(2020, 2, day) : day \in 30..31 }

\* date.toordinal()
toordinal(date) ==
    DaysBefore2020 + (IF date.month = 2 THEN DaysInMonth(1) ELSE 0) + date.day

\* datetime.date.fromordinal(i)
fromordinal(i) == CHOOSE date \in Dates : toordinal(date) = i

\* The order of Python on the day strings: that of their characters.
StrLess(a, b) ==
    \/ a[1] < b[1]
    \/ a[1] = b[1] /\ a[2] < b[2]
    \/ a[1] = b[1] /\ a[2] = b[2] /\ a[3] < b[3]

\* max() and min() of a list of dates that is not empty.
MaxDate(dates) ==
    CHOOSE d \in {dates[i] : i \in 1..Len(dates)} :
        \A i \in 1..Len(dates) : toordinal(dates[i]) <= toordinal(d)

MinDate(dates) ==
    CHOOSE d \in {dates[i] : i \in 1..Len(dates)} :
        \A i \in 1..Len(dates) : toordinal(d) <= toordinal(dates[i])

\* A row of the data, and the template (no day of its own).
Row(day, clicks) == [day |-> day, clicks |-> clicks]

Template == Row(NoDay, 0)

\* sorted(rows, key=lambda k: k['day']): row after row put behind the rows
\* that are not greater (the sort is stable).
RECURSIVE sorted(_)
sorted(rows) ==
    IF Len(rows) = 0 THEN <<>>
    ELSE LET head == sorted(SubSeq(rows, 1, Len(rows) - 1))
             row == rows[Len(rows)]
             n == Cardinality({i \in 1..Len(head) : ~StrLess(row.day, head[i].day)})
         IN  SubSeq(head, 1, n) \o <<row>> \o SubSeq(head, n + 1, Len(head))

\* for day in dates_in_range: if day not in existing_dates: data.append(t),
\* over the ordinals from i to last.
RECURSIVE Fill(_, _, _, _, _)
Fill(data, template, existing_dates, i, last) ==
    IF i > last THEN data
    ELSE LET day == fromordinal(i)
         IN  IF \E k \in 1..Len(existing_dates) : existing_dates[k] = day
             THEN Fill(data, template, existing_dates, i + 1, last)
             ELSE Fill(Append(data, [template EXCEPT !.day = strftime(day)]),
                       template, existing_dates, i + 1, last)

\* lines 9-18: the range runs from min_date to max_date, max_date being
\* made of day_from and min_date of day_to
FillRange(data, template, existing_dates, day_from, day_to) ==
    LET max_date == IF day_from # NoDay THEN strptime(day_from) ELSE MaxDate(existing_dates)
        min_date == IF day_to # NoDay THEN strptime(day_to) ELSE MinDate(existing_dates)
    IN  Fill(data, template, existing_dates, toordinal(min_date), toordinal(max_date))

DateReturned(rows) == [kind |-> "return", rows |-> rows, exception |-> "none"]

DateRaised(exception) == [kind |-> "raise", rows |-> <<>>, exception |-> exception]

\* helpers/date.py, lines 3-20 (max() and min() of an empty list raise
\* ValueError)
fill_missing_days(data, template, day_from, day_to) ==
    LET existing_dates == [i \in 1..Len(data) |-> strptime(data[i].day)]
    IN  IF (day_from = NoDay \/ day_to = NoDay) /\ Len(data) = 0
        THEN DateRaised("ValueError")
        ELSE DateReturned(sorted(FillRange(data, template, existing_dates, day_from, day_to)))

FillArguments(data, template, day_from, day_to) ==
    [data |-> data, template |-> template, day_from |-> day_from, day_to |-> day_to]

DateInit ==
    /\ utcnow = 0
    /\ storage \in { FillArguments(data, Template, day_from, day_to) :
                        data \in UNION { [1..n -> {Row(day, 5) : day \in DayStrings}]
                                         : n \in 0..MaxRows },
                        day_from \in DayStrings \cup {NoDay},
                        day_to \in DayStrings \cup {NoDay} }
    /\ lock = NoCaller
    /\ lastSaver = NoCaller
    /\ pc = "idle"
    /\ api_token = NoRecord
    /\ now = 0
    /\ rotated = NoRecord
    /\ result = DateReturned(<<>>)
    /\ trace = <<>>

fill_missing_days_call ==
    /\ pc = "idle"
    /\ pc' = "done"
    /\ result' = fill_missing_days(storage.data, storage.template, storage.day_from,
                                   storage.day_to)
    /\ UNCHANGED <<utcnow, storage, lock, lastSaver, api_token, now, rotated, trace>>

DateNext == fill_missing_days_call

DateSpec == DateInit /\ [][DateNext]_vars

-----------------------------------------------------------------------------
(* squash, helpers/billing.py.

   In the specification of this section squash is applied once to
   arguments drawn from bounded sets, and
     storage  is the arguments: billing and initial_balance
     pc       "idle" before the call, "done" after
     result   the list squash returned *)

\* The most items of the billing.
MaxBills == 3

rtb_costs_types == {"CLICKS", "IMPS", "POST_CLICKS", "POST_VIEWS", "POST_CLICKS_REJECTIONS",
                    "POST_VIEWS_REJECTIONS"}

dpa_costs_types == {"DPA_CLICKS", "DPA_LAST_CLICKS"}

\* An item of the billing; the description "" stands for an empty or
\* missing one.
Item(day, type, value, description) ==
    [day |-> day, type |-> type, value |-> value, description |-> description]

\* The items the billing is made of: costs of two RTB types and of a DPA
\* type and top-ups, of two days, with negative, zero and positive values,
\* and a top-up described as a cost of campaign.
Items ==
    { Item(day, type, value, "") : day \in {1, 2},
                                   type \in {"CLICKS", "IMPS", "DPA_CLICKS", "TOP_UP"},
                                   value \in {-2, 0, 3} }
    \cup {Item(1, "TOP_UP", 3, "Cost of campaign")}

\* str.lower().title() of the types that are no costs.
lower_title(type) == IF type = "TOP_UP" THEN "Top_Up" ELSE "Other"

\* The order of Python on the operation strings, as the place of each in
\* the sorted list of them ('F' comes before 'c').
OperationRank(operation) ==
    IF operation = "Cost of FB DPA campaign" THEN 1
    ELSE IF operation = "Cost of campaign" THEN 2
    ELSE IF operation = "Other" THEN 3
    ELSE 4

Bill(day, operation, position, credit, debit) ==
    [day |-> day, operation |-> operation, position |-> position, credit |-> credit,
     debit |-> debit]

\* _combine keeping the record saved first and dropping the sums of the
\* later ones.
RECURSIVE _combine_keeps_first(_)
_combine_keeps_first(bills) ==
    IF Len(bills) = 0 THEN <<>>
    ELSE LET saved == _combine_keeps_first(SubSeq(bills, 1, Len(bills) - 1))
             record == bills[Len(bills)]
             Same(i) == saved[i].day = record.day /\ saved[i].operation = record.operation
         IN  IF \E i \in 1..Len(saved) : Same(i) THEN saved
             ELSE Append(saved, record)

\* lines 7-19: a record is added to the saved record of its day and
\* operation, or appended when there is none.
RECURSIVE _combine(_)
_combine(bills) ==
    IF Len(bills) = 0 THEN <<>>
    ELSE LET saved == _combine(SubSeq(bills, 1, Len(bills) - 1))
             record == bills[Len(bills)]
             Same(i) == saved[i].day = record.day /\ saved[i].operation = record.operation
         IN  IF \E i \in 1..Len(saved) : Same(i)
             THEN [i \in 1..Len(saved) |->
                      IF Same(i)
                      THEN [saved[i] EXCEPT !.debit = @ + record.debit,
                                            !.credit = @ + record.credit]
                      ELSE saved[i]]
             ELSE Append(saved, record)

\* lines 22-36: itertools.groupby makes a group of every run of items of
\* one day; the positive values of a group make its credit and the
\* negative ones its debit.
RECURSIVE _group_by_days(_, _, _)
_group_by_days(billing, operation_name, position) ==
    IF Len(billing) = 0 THEN <<>>
    ELSE LET groups == _group_by_days(SubSeq(billing, 1, Len(billing) - 1), operation_name,
                                      position)
             item == billing[Len(billing)]
             v == item.value
             credit == IF v > 0 THEN v ELSE 0
             debit == IF v < 0 THEN v ELSE 0
         IN  IF Len(billing) > 1 /\ billing[Len(billing) - 1].day = item.day
             THEN [groups EXCEPT ![Len(groups)] =
                      [@ EXCEPT !.credit = @ + credit, !.debit = @ + debit]]
             ELSE Append(groups, Bill(item.day, operation_name, position, credit, debit))

\* lines 44-53: the items that are no costs, one record each.
RECURSIVE OtherBills(_)
OtherBills(items) ==
    IF Len(items) = 0 THEN <<>>
    ELSE LET y == items[1]
         IN  <<Bill(y.day,
                    IF y.description # "" THEN y.description ELSE lower_title(y.type),
                    1,
                    IF y.value > 0 THEN y.value ELSE 0,
                    IF y.value < 0 THEN y.value ELSE 0)>> \o OtherBills(Tail(items))

\* The order of the key (k['day'], k['position'], k['operation']).
KeyLess(a, b) ==
    \/ a.day < b.day
    \/ a.day = b.day /\ a.position < b.position
    \/ a.day = b.day /\ a.position = b.position
          /\ OperationRank(a.operation) < OperationRank(b.operation)

\* sorted(bills, key=...): bill after bill put behind the bills that are
\* not greater.
RECURSIVE sorted_bills(_)
sorted_bills(bills) ==
    IF Len(bills) = 0 THEN <<>>
    ELSE LET head == sorted_bills(SubSeq(bills, 1, Len(bills) - 1))
             bill == bills[Len(bills)]
             n == Cardinality({i \in 1..Len(head) : ~KeyLess(bill, head[i])})
         IN  SubSeq(head, 1, n) \o <<bill>> \o SubSeq(head, n + 1, Len(head))

\* lines 64-71: balance and recordNumber of the bills in their order.
RECURSIVE Numbered(_, _)
Numbered(bills, initial_balance) ==
    IF Len(bills) = 0 THEN <<>>
    ELSE LET head == Numbered(SubSeq(bills, 1, Len(bills) - 1), initial_balance)
             bill == bills[Len(bills)]
             balance == IF Len(head) = 0 THEN initial_balance ELSE head[Len(head)].balance
         IN  Append(head, [day |-> bill.day, operation |-> bill.operation,
                           position |-> bill.position, credit |-> bill.credit,
                           debit |-> bill.debit,
                           balance |-> balance + bill.credit + bill.debit,
                           recordNumber |-> Len(bills)])

IsRtb(x) == x.type \in rtb_costs_types

IsDpa(x) == x.type \in dpa_costs_types

IsOther(x) == x.type \notin rtb_costs_types \cup dpa_costs_types

NotZero(x) == x.credit # 0 \/ x.debit # 0

\* helpers/billing.py, lines 39-73 (filter(...) is SelectSeq)
squash(billing, initial_balance) ==
    LET rtb_costs == _group_by_days(SelectSeq(billing, IsRtb), "Cost of campaign", 2)
        dpa_costs == _group_by_days(SelectSeq(billing, IsDpa), "Cost of FB DPA campaign", 3)
        other == OtherBills(SelectSeq(billing, IsOther))
    IN  Numbered(sorted_bills(SelectSeq(_combine(rtb_costs \o dpa_costs \o other), NotZero)),
                 initial_balance)

BillingInit ==
    /\ utcnow = 0
    /\ storage \in { [billing |-> billing, initial_balance |-> initial_balance] :
                        billing \in UNION { [1..n -> Items] : n \in 0..MaxBills },
                        initial_balance \in {0, 10} }
    /\ lock = NoCaller
    /\ lastSaver = NoCaller
    /\ pc = "idle"
    /\ api_token = NoRecord
    /\ now = 0
    /\ rotated = NoRecord
    /\ result = <<>>
    /\ trace = <<>>

squash_call ==
    /\ pc = "idle"
    /\ pc' = "done"
    /\ result' = squash(storage.billing, storage.initial_balance)
    /\ UNCHANGED <<utcnow, storage, lock, lastSaver, api_token, now, rotated, trace>>

BillingNext == squash_call

BillingSpec == BillingInit /\ [][BillingNext]_vars

-----------------------------------------------------------------------------
(* Scheduling *)

\* A step of a get_token() or keep_alive() call of caller p other than
\* the acquisition of the lock: a clock reading, a storage call or an
\* issuer call that returns or raises, or the release of the lock.
CallStep(p) ==
    \/ get_token_check(p)
    \/ get_token_reload(p)
    \/ get_token_recheck(p)
    \/ \E ans \in HeartbeatAnswers : get_token_heartbeat(p, ans)
    \/ \E ans \in RotateAnswers : get_token_rotate(p, ans)
    \/ \E ok \in BOOLEAN : get_token_save(p, ok)
    \/ get_token_exit(p)
    \/ keep_alive_load(p)
    \/ keep_alive_check(p)
    \/ \E ans \in HeartbeatAnswers : keep_alive_heartbeat(p, ans)
    \/ \E ans \in RotateAnswers : keep_alive_rotate(p, ans)
    \/ \E ok \in BOOLEAN : keep_alive_save(p, ok)
    \/ keep_alive_exit(p)

\* Caller p's acquisition of the lock.
Acquire(p) == get_token_acquire(p) \/ keep_alive_acquire(p)

\* A configured manager: the storage holds a record.
FairInit == Init /\ storage # NoRecord

\* get_token() and keep_alive() calls, again and again, while time passes.
FairNext ==
    \/ \E t \in Instants : tick(t)
    \/ \E p \in Callers : get_token_load(p)
    \/ \E p \in Callers : keep_alive_call(p)
    \/ \E p \in Callers : Acquire(p)
    \/ \E p \in Callers : CallStep(p)

\* Every call in progress goes on (each storage and issuer call returns or
\* raises), and a caller waiting at a lock that is free again and again
\* gets it: asyncio.Lock wakes its waiters first come, first served.
Fairness == \A p \in Callers : WF_vars(CallStep(p)) /\ SF_vars(Acquire(p))

FairSpec == FairInit /\ [][FairNext]_vars /\ Fairness

-----------------------------------------------------------------------------
(* Vocabulary of the properties *)

\* The statements inside `with self._lock:` (managers.py lines 91-121 and
\* 125-148), the release of the lock included.
LockedPcs ==
    {"gt_reload", "gt_recheck", "gt_heartbeat", "gt_rotate", "gt_save", "gt_exit",
     "ka_load", "ka_check", "ka_heartbeat", "ka_rotate", "ka_save", "ka_exit"}

\* The statements waiting at `with self._lock:`.
WaitingPcs == {"gt_acquire", "ka_acquire"}

Has(tr, ev) == \E i \in DOMAIN tr : tr[i].ev = ev

HasAnswer(tr, ev, answer) == \E i \in DOMAIN tr : tr[i].ev = ev /\ tr[i].answer = answer

Count(tr, ev) == Cardinality({i \in DOMAIN tr : tr[i].ev = ev})

\* The call the history belongs to.
IsGetToken(tr) == tr # <<>> /\ tr[1].ev = "load"

IsKeepAlive(tr) == tr # <<>> /\ tr[1].ev = "acquire"

IsConfigure(tr) == tr # <<>> /\ tr[1].ev = "heartbeat"

\* The call has ended.
Ended(p) == pc[p] = "idle" /\ result[p] # NoResult

-----------------------------------------------------------------------------
\* C2: at most one caller at a time is between acquiring and releasing the
\* manager's lock, whatever get_token() and keep_alive() calls interleave,
\* so at most one heartbeat -> rotate -> save sequence is in flight; the
\* caller inside is the one the lock records as its holder.
C2_MutualExclusion ==
    /\ Cardinality({p \in DOMAIN pc : pc[p] \in LockedPcs}) <= 1
    /\ \A p \in DOMAIN pc : pc[p] \in LockedPcs => lock = p

\* A get_token() caller is about to rotate while a keep_alive() caller
\* waits for the lock.
C2_Witness ==
    \E p, q \in DOMAIN pc : pc[p] = "gt_rotate" /\ pc[q] = "ka_acquire"

-----------------------------------------------------------------------------
\* C3: when the record get_token() loaded is Fresh at the clock reading
\* (now < expires_at - rotation_window), the call returns the token of that
\* record after that one storage load, with no lock acquisition and no
\* heartbeat or rotate call, and leaves the storage and the lock as they
\* are; and its test never waits: it can be taken whoever holds the lock.
C3_FastPath ==
    /\ [][\A p \in DOMAIN pc :
            (/\ pc[p] = "gt_check"
             /\ pc'[p] # "gt_check"
             /\ utcnow < api_token[p].expires_at - ROTATION_WINDOW)
            => /\ pc'[p] = "idle"
               /\ result'[p] = Returned(api_token[p].token)
               /\ trace'[p] = <<Event("load", 0, "")>>
               /\ storage' = storage
               /\ lock' = lock]_vars
    /\ [](\A p \in DOMAIN pc : pc[p] = "gt_check" => ENABLED get_token_check(p))

\* A get_token() call has returned the token on the fast path while another
\* caller is inside the locked section.
C3_Witness ==
    \E p, q \in DOMAIN pc :
        /\ Ended(p)
        /\ result[p] = Returned(InitToken)
        /\ trace[p] = <<Event("load", 0, "")>>
        /\ lock = q
        /\ pc[q] = "ka_heartbeat"

\* C4: when the record is Expired at the clock reading
\* (now >= expires_at - expiration_margin), get_token() (at either of its
\* two tests) and keep_alive() raise TokenExpiredException without any
\* heartbeat or rotate call, the storage is left unchanged, and the
\* exception is what the call ends with once the lock is released.
C4_ExpiredRefused ==
    [][\A p \in DOMAIN pc :
         /\ (/\ pc[p] \in {"gt_check", "gt_recheck", "ka_check"}
             /\ pc'[p] # pc[p]
             /\ utcnow >= api_token[p].expires_at - EXPIRATION_MARGIN)
            => /\ result'[p] = Raised("TokenExpiredException")
               /\ pc'[p] \in {"idle", "gt_exit", "ka_exit"}
               /\ ~Has(trace'[p], "heartbeat")
               /\ ~Has(trace'[p], "rotate")
               /\ storage' = storage
         /\ (pc[p] \in {"gt_exit", "ka_exit"} /\ pc'[p] # pc[p])
            => /\ pc'[p] = "idle"
               /\ result'[p] = result[p]
               /\ trace'[p] = Append(trace[p], Event("release", 0, ""))
               /\ storage' = storage]_vars

\* get_token() and keep_alive() have both ended with TokenExpiredException
\* without having called the issuer.
C4_Witness ==
    \E p, q \in DOMAIN pc :
        /\ Ended(p)
        /\ Ended(q)
        /\ result[p] = Raised("TokenExpiredException")
        /\ result[q] = Raised("TokenExpiredException")
        /\ trace[p] = <<Event("load", 0, "")>>
        /\ trace[q] = <<Event("acquire", 0, ""), Event("load", 0, ""), Event("release", 0, "")>>

\* C5: with expiration_margin = 1 minute and rotation_window = 4 days
\* (5760 minutes) the manager's tests put a record in exactly one of three
\* states: Expired (TokenExpiredException) iff now >= expires_at - 1;
\* in the rotation window (get_token() goes on to the lock, and inside it
\* to the heartbeat) iff expires_at - 5760 <= now < expires_at - 1; Fresh
\* (the token is returned without a heartbeat) iff now < expires_at - 5760.
C5_Classification ==
    [][\A p \in DOMAIN pc :
         LET expires_at == api_token[p].expires_at
             isExpired == utcnow >= expires_at - 1
             isInWindow == expires_at - 5760 <= utcnow /\ utcnow < expires_at - 1
             isFresh == utcnow < expires_at - 5760
         IN  /\ (pc[p] = "gt_check" /\ pc'[p] # pc[p])
                => /\ (result'[p] = Raised("TokenExpiredException")) <=> isExpired
                   /\ (pc'[p] = "gt_acquire") <=> isInWindow
                   /\ (result'[p].kind = "return") <=> isFresh
             /\ (pc[p] = "gt_recheck" /\ pc'[p] # pc[p])
                => /\ (result'[p] = Raised("TokenExpiredException")) <=> isExpired
                   /\ (pc'[p] = "gt_heartbeat") <=> isInWindow
                   /\ (result'[p].kind = "return") <=> isFresh
             /\ (pc[p] = "ka_check" /\ pc'[p] # pc[p])
                => /\ (result'[p] = Raised("TokenExpiredException")) <=> isExpired
                   /\ (pc'[p] = "ka_heartbeat") <=> ~isExpired]_vars

\* Both boundary instants have been met: a caller found now = expires_at -
\* 5760 and went on to the lock, another found now = expires_at - 1 and
\* raised TokenExpiredException.
C5_Witness ==
    \E p, q \in DOMAIN pc :
        /\ pc[p] = "gt_acquire"
        /\ now[p] = api_token[p].expires_at - 5760
        /\ pc[q] \in {"gt_exit", "ka_exit"}
        /\ result[q] = Raised("TokenExpiredException")
        /\ now[q] = api_token[q].expires_at - 1

-----------------------------------------------------------------------------
\* C6: a get_token() call that found the record in the rotation window, was
\* told by heartbeat that the token is not expired and can be rotated, and
\* got (token', expires_at') from rotate, stores exactly that record and
\* returns token': as long as no other caller's save has replaced it, the
\* storage holds the record rotate answered with, and the call's result is
\* its token.
C6_RotationStored ==
    \A p \in DOMAIN pc :
        (/\ IsGetToken(trace[p])
         /\ HasAnswer(trace[p], "save", "ok")
         /\ lastSaver = p)
        => /\ HasAnswer(trace[p], "heartbeat", "rotatable")
           /\ HasAnswer(trace[p], "rotate", "ok")
           /\ storage.token = result[p].token
           /\ result[p] = Returned(storage.token)
           /\ pc[p] = "gt_exit"
              => /\ _in_rotation_window(api_token[p], now[p])
                 /\ storage = rotated[p]
                 /\ \E ans \in RotateAnswers :
                        ans.ok /\ storage = rotate(api_token[p].token, ans)

\* get_token() has rotated token 1 into token 2, stored the new record and
\* returned token 2.
C6_Witness ==
    \E p \in DOMAIN pc :
        /\ Ended(p)
        /\ IsGetToken(trace[p])
        /\ HasAnswer(trace[p], "save", "ok")
        /\ lastSaver = p
        /\ result[p] = Returned(InitToken + 1)
        /\ storage = ApiToken(InitToken + 1, FarExpiresAt)

\* C7: a get_token() call on a record in the rotation window whose
\* heartbeat answers not expired and not rotatable returns the token it
\* loaded, warns exactly once, calls neither rotate nor save; and the
\* in-rotation-window test that guards the warning holds whenever
\* get_token() reaches the heartbeat.
C7_RefusedRotation ==
    \A p \in DOMAIN pc :
        /\ pc[p] = "gt_heartbeat"
           => now[p] >= api_token[p].expires_at - ROTATION_WINDOW
        /\ (IsGetToken(trace[p]) /\ HasAnswer(trace[p], "heartbeat", "refused"))
           => /\ Count(trace[p], "warn") = 1
              /\ Count(trace[p], "heartbeat") = 1
              /\ ~Has(trace[p], "rotate")
              /\ ~Has(trace[p], "save")
              /\ result[p].kind = "return"
              /\ \E i \in DOMAIN trace[p] :
                    trace[p][i] = Event("heartbeat", result[p].token, "refused")
              /\ pc[p] = "gt_exit" => result[p].token = api_token[p].token

\* get_token() has ended after a refused rotation: one warning, the
\* original token returned.
C7_Witness ==
    \E p \in DOMAIN pc :
        /\ Ended(p)
        /\ IsGetToken(trace[p])
        /\ HasAnswer(trace[p], "heartbeat", "refused")
        /\ Count(trace[p], "warn") = 1
        /\ result[p] = Returned(InitToken)
        /\ storage = ApiToken(InitToken, InitExpiresAt)

\* C9: the save of a rotation is complete before the lock is released: a
\* caller whose rotate has answered and whose save has not been made yet
\* still holds the lock, and once the save has been made the record is
\* what the storage holds (what every later load returns) until another
\* caller saves.
C9_SaveBeforeRelease ==
    \A p \in DOMAIN pc :
        /\ (HasAnswer(trace[p], "rotate", "ok") /\ ~Has(trace[p], "save"))
           => lock = p /\ pc[p] \in {"gt_save", "ka_save"}
        /\ (HasAnswer(trace[p], "rotate", "ok") /\ HasAnswer(trace[p], "save", "ok")
                /\ lastSaver = p)
           => \E i \in DOMAIN trace[p] :
                 trace[p][i] = Event("save", storage.token, "ok")
        /\ (pc[p] \in {"gt_check", "gt_recheck", "ka_check"} /\ lastSaver = NoCaller)
           => api_token[p] = storage

\* A rotation has saved token 2 and released the lock, and a get_token()
\* call of another caller has loaded the new record.
C9_Witness ==
    \E p, q \in DOMAIN pc :
        /\ Ended(p)
        /\ HasAnswer(trace[p], "rotate", "ok")
        /\ HasAnswer(trace[p], "save", "ok")
        /\ lastSaver = p
        /\ lock = NoCaller
        /\ pc[q] = "gt_check"
        /\ api_token[q] = storage
        /\ storage.token = InitToken + 1

\* C10: every rotate(token) call is made inside the locked section of a
\* get_token() or keep_alive() call, right after a heartbeat on the same
\* token in the same call answered not expired and rotatable; configure()
\* never calls rotate.
C10_RotateAfterHeartbeat ==
    \A p \in DOMAIN pc :
        /\ \A i \in DOMAIN trace[p] :
              trace[p][i].ev = "rotate"
              => /\ i > 1
                 /\ trace[p][i - 1] = Event("heartbeat", trace[p][i].token, "rotatable")
                 /\ Has(SubSeq(trace[p], 1, i - 1), "acquire")
                 /\ ~Has(SubSeq(trace[p], 1, i), "release")
                 /\ ~IsConfigure(trace[p])
        /\ pc[p] \in {"gt_rotate", "ka_rotate"}
           => /\ lock = p
              /\ trace[p][Len(trace[p])] = Event("heartbeat", api_token[p].token, "rotatable")

\* keep_alive() has rotated a token after a heartbeat that allowed it.
C10_Witness ==
    \E p \in DOMAIN pc :
        /\ IsKeepAlive(trace[p])
        /\ HasAnswer(trace[p], "heartbeat", "rotatable")
        /\ HasAnswer(trace[p], "rotate", "ok")
        /\ Ended(p)

-----------------------------------------------------------------------------
\* The rotate calls that have reached the issuer, over all callers.
RotateCalls ==
    Cardinality(UNION {{<<p, i>> : i \in {j \in DOMAIN trace[p] : trace[p][j].ev = "rotate"}}
                       : p \in DOMAIN trace})

\* Every heartbeat so far has answered not expired and rotatable.
AllRotatable ==
    \A p \in DOMAIN trace : \A i \in DOMAIN trace[p] :
        trace[p][i].ev = "heartbeat" => trace[p][i].answer = "rotatable"

\* No rotate and no save has raised so far.
NoFailure ==
    \A p \in DOMAIN trace :
        ~HasAnswer(trace[p], "rotate", "error") /\ ~HasAnswer(trace[p], "save", "error")

AllReturned == \A p \in DOMAIN pc : Ended(p)

-----------------------------------------------------------------------------
\* C11: configure(token) first calls heartbeat on the given token; when the
\* heartbeat reports is_expired it raises TokenExpiredException and leaves
\* the storage as it was; otherwise it builds the record (given token,
\* heartbeat's expires_at) and its save puts exactly that record in the
\* storage, whatever record was there.
C11_Configure ==
    [][\A p \in DOMAIN pc :
        /\ (pc[p] = "idle" /\ IsConfigure(trace'[p]) /\ trace'[p] # trace[p])
           => /\ Len(trace'[p]) = 1
              /\ trace'[p][1].token \in ConfigTokens
              /\ storage' = storage
              /\ trace'[p][1].answer = "expired"
                 => pc'[p] = "idle" /\ result'[p] = Raised("TokenExpiredException")
              /\ trace'[p][1].answer \in {"rotatable", "refused"}
                 => /\ pc'[p] = "cf_save"
                    /\ \E ans \in HeartbeatAnswers :
                          /\ ans.ok /\ ~ans.is_expired
                          /\ api_token'[p] = ApiToken(trace'[p][1].token, ans.expires_at)
        /\ (pc[p] = "cf_save" /\ pc'[p] # "cf_save")
           => /\ pc'[p] = "idle"
              /\ \/ /\ storage' = ApiToken(trace[p][1].token, api_token[p].expires_at)
                    /\ result'[p] = Returned(0)
                    /\ trace'[p] = Append(trace[p], Event("save", trace[p][1].token, "ok"))
                 \/ /\ storage' = storage
                    /\ result'[p] = Raised("OSError")
       ]_vars

\* configure(1) has replaced the record of token 2, which the other
\* caller's rotation had saved, by the record (1, heartbeat's expires_at).
C11_Witness ==
    \E p, q \in DOMAIN pc :
        /\ Ended(p)
        /\ trace[p] = <<Event("heartbeat", InitToken, "refused"), Event("save", InitToken, "ok")>>
        /\ result[p] = Returned(0)
        /\ lastSaver = p
        /\ storage = ApiToken(InitToken, FarExpiresAt)
        /\ Ended(q)
        /\ \E i \in DOMAIN trace[q] : trace[q][i] = Event("save", InitToken + 1, "ok")

-----------------------------------------------------------------------------
\* C12 as stated: every record written to the storage by a successful
\* configure or rotation has expires_at strictly later than the time of
\* the write.
C12_WrittenInFuture ==
    [][storage' # storage => storage'.expires_at > utcnow]_vars

\* C12, amended: every record written to the storage by a successful
\* configure or rotation carries the expires_at the issuer answered with
\* in that call (the heartbeat's for configure, rotate's for a rotation),
\* unchanged; so it is strictly later than the time of the write whenever
\* the issuer's expires_at is.
C12_WrittenAsIssued ==
    [][\A p \in DOMAIN pc :
        /\ (pc[p] \in {"idle", "ce_heartbeat"} /\ pc'[p] \in {"cf_save", "ce_save"})
           => \E ans \in IssuerHeartbeatAnswers :
                 ans.ok /\ ~ans.is_expired /\ api_token'[p].expires_at = ans.expires_at
        /\ (pc[p] \in {"gt_rotate", "ka_rotate"} /\ pc'[p] \in {"gt_save", "ka_save"})
           => \E ans \in IssuerRotateAnswers :
                 ans.ok /\ rotated'[p].expires_at = ans.expires_at
        /\ (pc[p] \in {"cf_save", "ce_save", "gt_save", "ka_save"} /\ pc'[p] # pc[p])
           => LET issued == IF pc[p] \in {"cf_save", "ce_save"} THEN api_token[p] ELSE rotated[p]
              IN  \/ storage' = storage /\ result'[p] = Raised("OSError")
                  \/ /\ storage' = issued
                     /\ issued.expires_at > utcnow => storage'.expires_at > utcnow
        /\ (pc[p] \notin {"cf_save", "ce_save", "gt_save", "ka_save"}) => storage' = storage
       ]_vars

\* A rotation of get_token() has written the record rotate answered with,
\* whose expires_at is later than the clock.
C12_Witness ==
    \E p \in DOMAIN pc :
        /\ Ended(p)
        /\ IsGetToken(trace[p])
        /\ HasAnswer(trace[p], "save", "ok")
        /\ storage = ApiToken(InitToken + 1, FarExpiresAt)
        /\ utcnow = Jump + MaxTicks
        /\ storage.expires_at > utcnow

-----------------------------------------------------------------------------
IsConfigureFromEnv(tr) == tr # <<>> /\ tr[1].ev = "configure_from_env"

\* C13: configure_from_env(env_var, overwrite) returns False, without a
\* heartbeat and with the storage unchanged, when the variable is unset;
\* when overwrite is false and a record loads from the storage it leaves
\* the record untouched and calls no heartbeat; in every other case it does
\* what configure(value of the variable) does: one heartbeat on that value,
\* TokenExpiredException when it reports is_expired, otherwise the record
\* (value, heartbeat's expires_at) saved.
C13_ConfigureFromEnv ==
    [][\A p \in DOMAIN pc :
        /\ (pc[p] = "idle" /\ IsConfigureFromEnv(trace'[p]) /\ trace'[p] # trace[p])
           => /\ Len(trace'[p]) = 2
              /\ storage' = storage
              /\ trace'[p][2].answer = "unset"
                 => pc'[p] = "idle" /\ result'[p] = ReturnedBool(FALSE)
              /\ (trace'[p][2].answer = "set" /\ trace'[p][1].answer = "overwrite")
                 => pc'[p] = "ce_heartbeat"
              /\ (trace'[p][2].answer = "set" /\ trace'[p][1].answer = "keep")
                 => pc'[p] = "ce_is_configured"
        /\ (pc[p] = "ce_is_configured" /\ pc'[p] # pc[p])
           => /\ storage' = storage
              /\ ~Has(trace'[p], "heartbeat")
              /\ IF storage # NoRecord
                 THEN pc'[p] = "idle" /\ result'[p] = ReturnedBool(FALSE)
                 ELSE pc'[p] = "ce_heartbeat"
        /\ (pc[p] = "ce_heartbeat" /\ pc'[p] # pc[p])
           => /\ storage' = storage
              /\ Count(trace'[p], "heartbeat") = 1
              /\ \E ans \in IssuerHeartbeatAnswers :
                    /\ trace'[p] = Append(trace[p], HeartbeatEvent(trace[p][2].token, ans))
                    /\ IF ~ans.ok
                       THEN pc'[p] = "idle" /\ result'[p] = Raised("ApiException")
                       ELSE IF ans.is_expired
                       THEN pc'[p] = "idle" /\ result'[p] = Raised("TokenExpiredException")
                       ELSE /\ pc'[p] = "ce_save"
                            /\ api_token'[p] = ApiToken(trace[p][2].token, ans.expires_at)
        /\ (pc[p] = "ce_save" /\ pc'[p] # pc[p])
           => /\ pc'[p] = "idle"
              /\ \/ /\ storage' = ApiToken(trace[p][2].token, api_token[p].expires_at)
                    /\ result'[p] = ReturnedBool(TRUE)
                 \/ /\ storage' = storage
                    /\ result'[p] = Raised("OSError")
       ]_vars

\* configure_from_env with overwrite = false has just found a record in
\* the storage and returned False without a heartbeat.
C13_Witness ==
    \E p \in DOMAIN pc :
        /\ Ended(p)
        /\ trace[p] = <<Event("configure_from_env", 0, "keep"),
                        Event("getenv", InitToken, "set"),
                        Event("load", 0, "")>>
        /\ result[p] = ReturnedBool(FALSE)
        /\ storage = ApiToken(InitToken + 1, FarExpiresAt)

-----------------------------------------------------------------------------
\* The answer of the last call the history records.
LastAnswer(tr) == tr[Len(tr)].answer

\* C14 as stated: keep_alive() runs under the lock and, for any stored
\* record that is not Expired, calls heartbeat exactly once; when the
\* heartbeat reports can_rotate = true it calls rotate, and when it
\* reports can_rotate = false it returns normally with the storage
\* unchanged: whatever the heartbeat answers, one of the two happens.
C14_KeepAliveAsStated ==
    [][\A p \in DOMAIN pc :
        (pc[p] = "ka_heartbeat" /\ pc'[p] # pc[p] /\ LastAnswer(trace'[p]) # "error")
        => /\ lock = p
           /\ Count(trace'[p], "heartbeat") = 1
           /\ \/ pc'[p] = "ka_rotate"
              \/ pc'[p] = "ka_exit" /\ result'[p] = Returned(0) /\ storage' = storage
       ]_vars

\* C14, amended: keep_alive() runs under the lock and, for any stored
\* record that is not Expired, Fresh or in the rotation window, calls
\* heartbeat exactly once; when the heartbeat reports is_expired it raises
\* TokenExpiredException with no rotate and the storage unchanged; when it
\* reports not expired and can_rotate = true it calls rotate and saves the
\* rotated record; when it reports not expired and can_rotate = false it
\* returns normally with the storage unchanged, warning only when the
\* record is in the rotation window.
C14_KeepAlive ==
    [][\A p \in DOMAIN pc :
        /\ (pc[p] = "ka_check" /\ pc'[p] # pc[p] /\ utcnow < api_token[p].expires_at - EXPIRATION_MARGIN)
           => lock = p /\ pc'[p] = "ka_heartbeat" /\ ~Has(trace[p], "heartbeat")
        /\ (pc[p] = "ka_heartbeat" /\ pc'[p] # pc[p])
           => /\ lock = p
              /\ storage' = storage
              /\ Count(trace'[p], "heartbeat") = 1
              /\ \E i \in DOMAIN trace'[p] :
                    trace'[p][i].ev = "heartbeat" /\ trace'[p][i].token = api_token[p].token
              /\ HasAnswer(trace'[p], "heartbeat", "expired")
                 => pc'[p] = "ka_exit" /\ result'[p] = Raised("TokenExpiredException")
              /\ HasAnswer(trace'[p], "heartbeat", "rotatable") => pc'[p] = "ka_rotate"
              /\ HasAnswer(trace'[p], "heartbeat", "refused")
                 => /\ pc'[p] = "ka_exit"
                    /\ result'[p] = Returned(0)
                    /\ Count(trace'[p], "warn")
                         = IF now[p] >= api_token[p].expires_at - ROTATION_WINDOW THEN 1 ELSE 0
        /\ (pc[p] = "ka_rotate" /\ pc'[p] # pc[p])
           => /\ lock = p
              /\ storage' = storage
              /\ trace'[p] = Append(trace[p], Event("rotate", api_token[p].token, LastAnswer(trace'[p])))
              /\ LastAnswer(trace'[p]) = "ok"
                 => /\ pc'[p] = "ka_save"
                    /\ \E ans \in RotateAnswers :
                          ans.ok /\ rotated'[p] = rotate(api_token[p].token, ans)
        /\ (pc[p] = "ka_save" /\ pc'[p] # pc[p])
           => /\ lock = p
              /\ pc'[p] = "ka_exit"
              /\ \/ storage' = rotated[p] /\ result'[p] = Returned(0)
                 \/ storage' = storage /\ result'[p] = Raised("OSError")
       ]_vars

\* keep_alive() on a Fresh record has made its one heartbeat, was refused
\* the rotation and returned without a warning, while another keep_alive()
\* on a Fresh record has rotated it.
C14_Witness ==
    \E p, q \in DOMAIN pc :
        /\ Ended(p)
        /\ trace[p] = <<Event("acquire", 0, ""), Event("load", 0, ""),
                        Event("heartbeat", InitToken + 1, "refused"), Event("release", 0, "")>>
        /\ result[p] = Returned(0)
        /\ Ended(q)
        /\ trace[q] = <<Event("acquire", 0, ""), Event("load", 0, ""),
                        Event("heartbeat", InitToken, "rotatable"),
                        Event("rotate", InitToken, "ok"),
                        Event("save", InitToken + 1, "ok"), Event("release", 0, "")>>
        /\ utcnow = 0

-----------------------------------------------------------------------------
\* C15: when heartbeat or rotate raises an API error inside get_token() or
\* keep_alive(), the call ends with that ApiException, makes no heartbeat
\* or rotate call after it and no save, leaves the storage as it is, and
\* gives the lock back.
C15_ApiErrorSurfaces ==
    /\ [](\A p \in DOMAIN pc : \A i \in DOMAIN trace[p] :
            (/\ trace[p][i].ev \in {"heartbeat", "rotate"}
             /\ trace[p][i].answer = "error"
             /\ Has(trace[p], "acquire"))
            => /\ result[p] = Raised("ApiException")
               /\ pc[p] \in {"gt_exit", "ka_exit", "idle"}
               /\ ~Has(trace[p], "save")
               /\ \A j \in DOMAIN trace[p] : j > i => trace[p][j].ev = "release"
               /\ pc[p] \in {"gt_exit", "ka_exit"} => lock = p /\ i = Len(trace[p])
               /\ pc[p] = "idle" => lock # p /\ trace[p][Len(trace[p])].ev = "release"
                                    /\ i = Len(trace[p]) - 1)
    /\ [][\A p \in DOMAIN pc :
            (/\ pc[p] \in {"gt_heartbeat", "gt_rotate", "ka_heartbeat", "ka_rotate", "gt_exit", "ka_exit"}
             /\ pc'[p] # pc[p]
             /\ result'[p] = Raised("ApiException"))
            => storage' = storage]_vars

\* A get_token() call whose rotate raised has ended with the ApiException
\* and released the lock, and a keep_alive() whose heartbeat raised is about
\* to release it.
C15_Witness ==
    \E p, q \in DOMAIN pc :
        /\ Ended(p)
        /\ result[p] = Raised("ApiException")
        /\ trace[p] = <<Event("load", 0, ""), Event("acquire", 0, ""), Event("load", 0, ""),
                        Event("heartbeat", InitToken, "rotatable"),
                        Event("rotate", InitToken, "error"), Event("release", 0, "")>>
        /\ storage = ApiToken(InitToken, InitExpiresAt)
        /\ pc[q] = "ka_exit"
        /\ lock = q
        /\ trace[q] = <<Event("acquire", 0, ""), Event("load", 0, ""),
                        Event("heartbeat", InitToken, "error")>>
        /\ result[q] = Raised("ApiException")

-----------------------------------------------------------------------------
\* C16: whatever calls of configure, configure_from_env, is_configured,
\* get_token and keep_alive are made on an ApiTokenManager and on an
\* AsyncApiTokenManager that start from the same stored record and are given
\* the same clock readings and issuer answers, each call has the same
\* outcome, makes the same storage and issuer calls in the same order and
\* leaves the same record in the storage of both.
C16_SameBehaviour ==
    /\ result[1] = result[2]
    /\ trace[1] = trace[2]
    /\ storage[1] = storage[2]

\* Both managers have rotated token 1 into token 2 in a get_token() call
\* whose second clock reading came a rotation window's length after the
\* first.
C16_Witness ==
    /\ result[2] = Returned(InitToken + 1)
    /\ Has(trace[2], "rotate")
    /\ trace[1] = trace[2]
    /\ storage[2].token = InitToken + 1
    /\ utcnow = Jump

-----------------------------------------------------------------------------
(* The storages *)

\* The step is a whole call of load(), of the storage named in ev.
IsLoad(ev) ==
    /\ pc[1] = "idle"
    /\ Len(trace'[1]) = Len(trace[1]) + 1
    /\ trace'[1][Len(trace'[1])].ev = ev

\* The only things that happened since the last save(), which returned,
\* are calls of load() and (with `ev` of the JSON file storage) restarts.
SaveReturned(ev) ==
    /\ pc[1] = "idle"
    /\ trace[1] # <<>>
    /\ trace[1][1].ev = ev
    /\ ev = "memory.save" => ~Has(trace[1], "restart")
    /\ ev = "file.save" => HasAnswer(trace[1], "replace", "ok") /\ Has(trace[1], "remove")

\* C17: a load() that follows save(r) returns r field for field, for the
\* in-memory storage and for the JSON file storage; for the JSON file
\* storage also when a new storage instance for the same path makes the
\* load(); and whatever was saved before, it is the record saved last that
\* load() returns.
C17_SaveThenLoad ==
    [][ /\ (IsLoad("memory.load") /\ SaveReturned("memory.save"))
            => result'[1] = StorageReturned(api_token[1])
        /\ (IsLoad("file.load") /\ SaveReturned("file.save"))
            => result'[1] = StorageReturned(api_token[1]) ]_vars

\* The JSON file existed, save() of token 2 replaced it and returned, the
\* process was replaced by a new one, and the new one's load() returned
\* token 2 with its expires_at.
C17_Witness ==
    /\ HasAnswer(trace[1], "file.save", "overwrite")
    /\ HasAnswer(trace[1], "replace", "ok")
    /\ Len(trace[1]) > 2
    /\ trace[1][Len(trace[1]) - 1].ev = "restart"
    /\ trace[1][Len(trace[1])].ev = "file.load"
    /\ api_token[1] = ApiToken(InitToken + 1, FarExpiresAt)
    /\ result[1] = StorageReturned(api_token[1])

-----------------------------------------------------------------------------
\* The step is a whole call of delete(), of the storage named in ev.
IsDelete(ev) == pc[1] = "idle" /\ Len(trace'[1]) = 1 /\ trace'[1][1].ev = ev

\* The only things that happened since the last delete() of the storage
\* named in ev are calls of load() and restarts.
Deleted(ev) == pc[1] = "idle" /\ trace[1] # <<>> /\ trace[1][1].ev = ev

\* C18: delete() returns normally and leaves the storage empty whether or
\* not a record exists; a delete() that follows a delete() changes nothing;
\* a load() that follows a delete() raises the storage exception of a
\* missing record (no record is returned), so is_configured() is false.
C18_Delete ==
    [][ /\ IsDelete("memory.delete")
            => /\ result'[1] = StorageReturned(NoRecord)
               /\ storage'.memory = NoRecord
               /\ Deleted("memory.delete") => storage' = storage
        /\ IsDelete("file.delete")
            => /\ result'[1] = StorageReturned(NoRecord)
               /\ storage'.path = NoFile
               /\ Deleted("file.delete") => storage' = storage
        /\ (IsLoad("memory.load") /\ Deleted("memory.delete"))
            => /\ result'[1] = StorageRaised("ApiTokenStorageException", "No API token stored in memory")
               /\ ~is_configured(result'[1])
        /\ (IsLoad("file.load") /\ Deleted("file.delete"))
            => /\ result'[1] = StorageRaised("ApiTokenStorageException", "JSON file does not exist")
               /\ ~is_configured(result'[1]) ]_vars

\* delete() of the JSON file storage found no file, returned, and the
\* load() after it raised the exception of a missing file.
C18_Witness ==
    /\ trace[1] = <<Event("file.delete", 0, "FileNotFoundError"),
                    Event("file.load", 0, "ApiTokenStorageException")>>
    /\ result[1] = StorageRaised("ApiTokenStorageException", "JSON file does not exist")
    /\ storage.path = NoFile

-----------------------------------------------------------------------------
\* The step is the end of a save() that raises.
SaveRaises == pc[1] # "idle" /\ pc'[1] = "idle" /\ result'[1].kind = "OSError"

\* The history is of a save() of the JSON file storage in which one of
\* the steps failed.
SaveFailedAt(tr, steps) ==
    /\ tr # <<>>
    /\ tr[1].ev = "file.save"
    /\ \E ev \in steps : HasAnswer(tr, ev, "error")

\* No step but a rename that succeeded, or a delete(), changes what a
\* load() of the JSON file storage returns or raises; a step that changes
\* the file at _path puts there the complete text of the record being
\* saved, or removes the file in a delete().
OldOrNew ==
    /\ ~(HasAnswer(trace'[1], "replace", "ok") /\ pc[1] = "sv_replace") /\ ~IsDelete("file.delete")
        => JsonFileApiTokenStorage_load(storage'.path) = JsonFileApiTokenStorage_load(storage.path)
    /\ storage'.path # storage.path
        => \/ storage'.path = File(TRUE, model_dump_json(api_token[1]), TRUE)
           \/ IsDelete("file.delete") /\ storage'.path = NoFile

\* C19 as stated: a save() of the JSON file storage that is interrupted or
\* in which mkstemp, write, flush, fsync or chmod fails never reaches a
\* rename that succeeds, so that a load() after it returns what a load()
\* before it did; the file at _path is at every step the complete old or
\* the complete new one; when a save() ends with the error of a failed
\* step no temporary file is left.
C19_AtomicSaveAsStated ==
    /\ [](SaveFailedAt(trace[1], {"mkstemp", "write", "flush", "fsync", "chmod"})
            => ~HasAnswer(trace[1], "replace", "ok"))
    /\ [][OldOrNew]_vars
    /\ [][SaveRaises => ~storage'.temp.exists /\ storage'.left = storage.left]_vars

\* C19: a save() of the JSON file storage that is interrupted before the
\* rename or in which mkstemp, write, flush or fsync fails never reaches
\* the rename, so that a load() after it returns what a load() before it
\* did; a failed chmod does not end the save(), which goes on to the
\* rename; the file at _path is at every step the complete old or the
\* complete new one; when a save() ends with the error of a failed step no
\* temporary file is left, unless its removal failed too.
C19_AtomicSave ==
    /\ [](SaveFailedAt(trace[1], {"mkdir", "mkstemp", "write", "flush", "fsync"})
            => ~Has(trace[1], "replace"))
    /\ [][pc[1] = "sv_chmod" /\ pc'[1] # "idle" => pc'[1] = "sv_replace" /\ result'[1] = result[1]]_vars
    /\ [][OldOrNew]_vars
    /\ [][SaveRaises /\ ~HasAnswer(trace'[1], "remove", "error")
            => ~storage'.temp.exists /\ storage'.left = storage.left]_vars

\* save() of token 2 over the file of token 1 failed in flush() with part
\* of the text in the temporary file: the temporary file is gone, the file
\* at _path is still the complete record of token 1, the call raised.
C19_Witness ==
    /\ pc[1] = "idle"
    /\ HasAnswer(trace[1], "file.save", "overwrite")
    /\ HasAnswer(trace[1], "flush", "error")
    /\ HasAnswer(trace[1], "remove", "ok")
    /\ result[1] = StorageRaised("OSError", "flush")
    /\ api_token[1] = ApiToken(InitToken + 1, FarExpiresAt)
    /\ storage.path = File(TRUE, model_dump_json(ApiToken(InitToken, InitExpiresAt)), TRUE)
    /\ ~storage.temp.exists
    /\ ~storage.left

-----------------------------------------------------------------------------
\* The step is the rename of a save() of the JSON file storage, and it
\* succeeds.
Renames == pc[1] = "sv_replace" /\ HasAnswer(trace'[1], "replace", "ok")

\* The load() of the step returns a record.
Accepts == result'[1].kind = "return"

-----------------------------------------------------------------------------
(* The manager, again *)

\* What C25 says of every step of get_token() from the first window test
\* to the re-check, and of the heartbeat that refuses a rotation, the
\* number of heartbeat calls left open: a caller goes for the lock only
\* with a record in the rotation window; with the lock it loads the record
\* again and reads the clock again; a record that is then Fresh is
\* returned with no issuer call; a record the heartbeat reports valid and
\* not rotatable is returned with `heartbeats` heartbeat calls and no
\* rotate call in the invocation.
Recheck(p, heartbeats) ==
    /\ pc[p] = "gt_check" /\ pc'[p] = "gt_acquire"
        => _in_rotation_window(api_token[p], utcnow) /\ ~_raise_if_expired(api_token[p], utcnow)
    /\ pc[p] = "gt_acquire" /\ pc'[p] # pc[p]
        => pc'[p] = "gt_reload" /\ lock' = p
    /\ pc[p] = "gt_reload" /\ pc'[p] = "gt_recheck"
        => lock = p /\ api_token'[p] = storage
    /\ pc[p] = "gt_recheck" /\ pc'[p] # pc[p]
        => /\ lock = p
           /\ now'[p] = utcnow
           /\ ~_in_rotation_window(api_token[p], utcnow)
               => /\ pc'[p] = "gt_exit"
                  /\ result'[p] = Returned(api_token[p].token)
                  /\ ~Has(trace'[p], "heartbeat")
                  /\ ~Has(trace'[p], "rotate")
                  /\ storage' = storage
    /\ pc[p] = "gt_heartbeat" /\ HasAnswer(trace'[p], "heartbeat", "refused")
        => /\ pc'[p] = "gt_exit"
           /\ result'[p] = Returned(api_token[p].token)
           /\ Count(trace'[p], "heartbeat") = heartbeats
           /\ ~Has(trace'[p], "rotate")
           /\ storage' = storage

\* C25 as stated: a get_token() caller that found the record in the
\* rotation window takes the lock, loads the record again and checks it
\* against a new clock reading; if the record is then Fresh, or valid and
\* not rotatable, the call returns its token with no heartbeat and no
\* rotate call in the invocation.
C25_RecheckAsStated == [][\A p \in Callers : Recheck(p, 0)]_vars

\* C25: a get_token() caller that found the record in the rotation window
\* takes the lock, loads the record again and checks it against a new
\* clock reading; if the record is then Fresh the call returns its token
\* with no heartbeat and no rotate call; if it is valid and not rotatable,
\* which the one heartbeat call of the invocation tells, the call returns
\* its token with no further issuer call.
C25_Recheck == [][\A p \in Callers : Recheck(p, 1)]_vars

\* Caller p found token 1 in the rotation window and went for the lock;
\* with the lock it loaded token 2, stored by the other caller's rotation,
\* found it Fresh and returned it without a heartbeat.
C25_Witness ==
    \E p, q \in Callers :
        /\ p # q
        /\ pc[p] = "idle"
        /\ trace[p] = <<Event("load", 0, ""), Event("acquire", 0, ""),
                        Event("load", 0, ""), Event("release", 0, "")>>
        /\ result[p] = Returned(InitToken + 1)
        /\ storage = ApiToken(InitToken + 1, FarExpiresAt)
        /\ lastSaver = q

-----------------------------------------------------------------------------
\* The step is the return of a token by caller p's get_token().
GetTokenReturns(p) ==
    /\ pc[p] \in {"gt_check", "gt_exit"}
    /\ pc'[p] = "idle"
    /\ result'[p].kind = "return"

\* C26 as stated: whatever get_token() and keep_alive() calls interleave
\* (no configure), the token a get_token() returns is the token of the
\* record the storage holds when it returns.
C26_ReturnsStoredTokenAsStated ==
    [][\A p \in Callers : GetTokenReturns(p) => result'[p].token = storage'.token]_vars

\* C26: whatever get_token() and keep_alive() calls interleave (no
\* configure), the token a get_token() returns from inside the lock is the
\* token of the record the storage holds when it returns; the token a
\* get_token() returns on the path without the lock is the token of the
\* record it loaded, which is the stored one unless a rotation has saved
\* a later token since that load.
C26_ReturnsStoredToken ==
    [][\A p \in Callers :
        GetTokenReturns(p) =>
            /\ pc[p] = "gt_exit" => result'[p].token = storage'.token
            /\ pc[p] = "gt_check"
                => /\ result'[p].token = api_token[p].token
                   /\ \/ result'[p].token = storage'.token
                      \/ result'[p].token < storage'.token /\ lastSaver # NoCaller /\ lastSaver # p]_vars

\* Caller q's get_token() rotated token 1 into token 2 and returned token
\* 2, the stored one, while caller p's keep_alive() waited for the lock.
C26_Witness ==
    \E p, q \in Callers :
        /\ p # q
        /\ pc[q] = "idle"
        /\ IsGetToken(trace[q])
        /\ HasAnswer(trace[q], "save", "ok")
        /\ result[q] = Returned(InitToken + 1)
        /\ storage.token = InitToken + 1
        /\ lastSaver = q
        /\ pc[p] = "ka_acquire"

-----------------------------------------------------------------------------
\* C27: a save() of a rotation, in get_token() or keep_alive(), replaces
\* the record that the rotation loaded as its input: no record that
\* configure() saved after that load is overwritten by it.
C27_RotationKeepsConfigured ==
    [][\A p \in Callers :
        pc[p] \in {"gt_save", "ka_save"} /\ storage' # storage => storage = api_token[p]]_vars

\* Caller p's keep_alive() loaded token 2 under the lock and has rotated
\* it; caller q's configure() has saved token 1 since; p is about to save
\* token 3 over it.
C27_Witness ==
    \E p, q \in Callers :
        /\ p # q
        /\ pc[p] = "ka_save"
        /\ lock = p
        /\ api_token[p].token = InitToken + 1
        /\ rotated[p].token = InitToken + 2
        /\ pc[q] = "idle"
        /\ IsConfigure(trace[q])
        /\ HasAnswer(trace[q], "save", "ok")
        /\ lastSaver = q
        /\ storage.token = InitToken

-----------------------------------------------------------------------------
\* The statements of get_token() and keep_alive() after the call itself.
RotatingPcs == {"gt_check", "gt_acquire"} \cup WaitingPcs \cup LockedPcs

\* C28: of the steps of get_token() and keep_alive() only a save() that
\* follows a rotate() that succeeded changes the stored record, there is
\* one save() for each such rotate() and none otherwise, and it stores the
\* token and expires_at that rotate() answered with; a call that ends in
\* any other way (return on the path without the lock, Fresh at the
\* re-check, TokenExpiredException from the clock or from the heartbeat,
\* rotation refused, no record, error of the issuer or of save) leaves the
\* record as it was before the call; is_configured() leaves it as it was.
C28_WritesOnlyOnRotation ==
    /\ [][\A p \in SoloCallers :
            /\ (pc[p] \in RotatingPcs \/ pc'[p] \in RotatingPcs) /\ storage' # storage
                => /\ pc[p] \in {"gt_save", "ka_save"}
                   /\ trace[p][Len(trace[p])] = Event("rotate", api_token[p].token, "ok")
                   /\ storage' = rotated[p]
            /\ pc[p] \in {"gt_rotate", "ka_rotate"} /\ pc'[p] \in {"gt_save", "ka_save"}
                => \E ans \in IssuerRotateAnswers :
                        ans.ok /\ rotated'[p] = ApiToken(api_token[p].token + 1, ans.expires_at)
            /\ pc[p] \in RotatingPcs /\ pc'[p] = "idle" /\ ~HasAnswer(trace'[p], "save", "ok")
                => storage' = api_token[p]
            /\ pc[p] = "idle" /\ pc'[p] = "idle" /\ trace'[p] = <<Event("load", 0, "")>>
                => storage' = storage
            /\ pc[p] = "ce_is_configured" => storage' = storage]_vars
    /\ [](\A p \in SoloCallers :
            (IsGetToken(trace[p]) \/ IsKeepAlive(trace[p]))
                => /\ Count(trace[p], "save") <= 1
                   /\ pc[p] \in {"idle", "gt_exit", "ka_exit"}
                       => Count(trace[p], "save") = IF HasAnswer(trace[p], "rotate", "ok") THEN 1 ELSE 0)

\* keep_alive() found the heartbeat ready to rotate, rotate() raised, and
\* the call ended with the API error and token 1 still stored.
C28_Witness ==
    /\ pc[1] = "idle"
    /\ IsKeepAlive(trace[1])
    /\ HasAnswer(trace[1], "heartbeat", "rotatable")
    /\ HasAnswer(trace[1], "rotate", "error")
    /\ ~Has(trace[1], "save")
    /\ result[1] = Raised("ApiException")
    /\ storage = ApiToken(InitToken, InitExpiresAt)

-----------------------------------------------------------------------------
(* Cursor pagination, again *)

\* The rows of the server's first n pages, in the server's order.
RECURSIVE RowsOf(_, _)
RowsOf(server, n) == IF n = 0 THEN <<>> ELSE RowsOf(server, n - 1) \o server[n].rows

\* The pages whose rows the call of c has produced.
PagesProduced(c) == IF pc[c] \in {"cursor", "done"} THEN Len(trace[c])
                    ELSE IF pc[c] = "rows" THEN Len(trace[c]) - 1
                    ELSE Len(trace[c])

\* Request k + 1 of c carries the nextCursor of response k, and the first
\* request carries none.
CarriesCursor(c) ==
    \A k \in 1..Len(trace[c]) :
        IF k = 1 THEN "nextCursor" \notin DOMAIN trace[c][k]
        ELSE /\ "nextCursor" \in DOMAIN trace[c][k]
             /\ trace[c][k].nextCursor = storage[k - 1].nextCursor

\* C21: against a server that answers with pages 1..n, of which pages
\* 1..n-1 carry a non-null nextCursor and page n a null one, the pagination
\* loop of Client and of AsyncClient sends request k + 1 with the
\* nextCursor of response k as it came, produces the rows of the pages in
\* the server's order with none dropped, doubled or moved, and ends, and it
\* has then sent exactly n requests and produced the rows of all n pages.
C21_Pagination ==
    /\ [](\A c \in {"Client", "AsyncClient"} :
            /\ CarriesCursor(c)
            /\ result[c].rows = RowsOf(storage, PagesProduced(c))
            /\ result[c].done => /\ Len(trace[c]) = Len(storage)
                                 /\ result[c].rows = RowsOf(storage, Len(storage)))
    /\ \A c \in {"Client", "AsyncClient"} : (pc[c] = "request") ~> result[c].done

\* C21 witness: the Client's call has ended after three requests, the first
\* page carried the empty string as its cursor, and the rows 3, 2 of a page
\* came before the row 1 of a later one.
C21_Witness ==
    /\ result["Client"].done
    /\ Len(trace["Client"]) = 3
    /\ storage[1].nextCursor = ""
    /\ storage[2].rows = <<3, 2>>
    /\ storage[3].rows = <<1>>
    /\ result["Client"].rows = storage[1].rows \o <<3, 2, 1>>

\* The request params `params` carry the items of the call's params.
CarriesParams(params, original) ==
    \A key \in DOMAIN original : key \in DOMAIN params /\ params[key] = original[key]

\* The request params carry a limit, and it is no more than the page size.
CarriesLimit(params) == "limit" \in DOMAIN params /\ params.limit <= MAX_CURSOR_ROWS

\* Every request of c carries the call's params and a limit, and a
\* follow-up request differs from the first by its nextCursor only.
SameRequest(c) ==
    \A k \in 1..Len(trace[c]) :
        /\ CarriesParams(trace[c][k], api_token[c])
        /\ CarriesLimit(trace[c][k])
        /\ k > 1 => /\ "nextCursor" \in DOMAIN trace[c][k]
                    /\ trace[c][k] = Update(trace[c][1], [nextCursor |-> trace[c][k].nextCursor])

\* Every request of c carries a limit; the first carries the call's params
\* and a follow-up request carries its nextCursor and its limit, nothing
\* else.
CursorAlone(c) ==
    \A k \in 1..Len(trace[c]) :
        /\ CarriesLimit(trace[c][k])
        /\ k = 1 => CarriesParams(trace[c][k], api_token[c])
        /\ k > 1 => DOMAIN trace[c][k] = {"nextCursor", "limit"}

\* C22 as stated: every request of a pagination loop carries the call's
\* params and a limit of no more than 10000, and follow-up requests differ
\* from the first by the added nextCursor only, in Client, AsyncClient and
\* ReportsApiSession alike.
C22_SameRequestAsStated == \A c \in ClientClasses : SameRequest(c)

\* C22: every request of the pagination loop of Client and of AsyncClient
\* carries the call's params (dayFrom, dayTo, countConvention) and a limit
\* of no more than 10000, and follow-up requests differ from the first by
\* the added nextCursor only; ReportsApiSession sends the call's params and
\* the limit with the first request, and its follow-up requests carry the
\* nextCursor and the limit only.
C22_SameRequest ==
    /\ \A c \in {"Client", "AsyncClient"} : SameRequest(c)
    /\ CursorAlone("ReportsApiSession")

\* C22 witness: the Client and the ReportsApiSession have each sent a
\* follow-up request, with the cursor of the first page, for calls with
\* dayTo 2.
C22_Witness ==
    /\ Len(trace["Client"]) >= 2
    /\ Len(trace["ReportsApiSession"]) >= 2
    /\ api_token["Client"].dayTo = 2
    /\ api_token["ReportsApiSession"].dayTo = 2
    /\ trace["Client"][2].nextCursor = "123"
    /\ trace["Client"][2].dayTo = 2
    /\ trace["ReportsApiSession"][2].nextCursor = "123"

-----------------------------------------------------------------------------
(* The X-Resource-Usage header, again *)

Occurrences(s, c) == Cardinality({i \in 1..Len(s) : s[i] = c})

Before(s, c) == SubSeq(s, 1, (CHOOSE i \in 1..Len(s) : s[i] = c) - 1)

After(s, c) == SubSeq(s, (CHOOSE i \in 1..Len(s) : s[i] = c) + 1, Len(s))

\* The segment has the form METRIC-window=used/limit: one "=", one "-"
\* before it, one "/" after it, and a number as used.
WellFormed(line) ==
    /\ Occurrences(line, "=") = 1
    /\ Occurrences(Before(line, "="), "-") = 1
    /\ Occurrences(After(line, "="), "/") = 1
    /\ IsFloat(Before(After(line, "="), "/"))

\* The metric, window and limit of a segment of that form, and its used.
KeyOf(line) == <<Before(Before(line, "="), "-"), After(Before(line, "="), "-"),
                 After(After(line, "="), "/")>>

UsedOf(line) == float(Before(After(line, "="), "/"))

\* The entries of a dict of metric -> window -> limit -> used.
Entries(limits) ==
    UNION { UNION { { <<metric, time_span, limit>> : limit \in DOMAIN limits[metric][time_span] }
                    : time_span \in DOMAIN limits[metric] }
            : metric \in DOMAIN limits }

HasEntry(limits, key, used) ==
    /\ key \in Entries(limits)
    /\ limits[key[1]][key[2]][key[3]] = used

\* A parse of the header has been made, by either copy of the parser.
ParseDone ==
    /\ pc = "done"
    /\ trace[1] \in {"exceptions.parse_resource_usage_header",
                     "ReportsApiSession.parse_resource_usage_header"}

\* The header is there, not empty, and all its segments have the form.
AllWellFormed(header) ==
    /\ header # NoHeader
    /\ header # <<>>
    /\ \A i \in 1..Len(split(header, ";")) : WellFormed(split(header, ";")[i])

\* C24 as stated: the parse of a header of well-formed segments maps
\* metric -> window -> limit -> used with one entry for every segment, and
\* the parse of a missing or empty header or of one with a malformed
\* segment is the empty dict.
C24_ParseHeaderAsStated ==
    ParseDone =>
        LET lines == split(storage.usage, ";")
        IN  IF AllWellFormed(storage.usage)
            THEN /\ \A i \in 1..Len(lines) : HasEntry(result.limits, KeyOf(lines[i]), UsedOf(lines[i]))
                 /\ Cardinality(Entries(result.limits)) = Len(lines)
            ELSE result.limits = EmptyDict

\* C24: the parse of a header of well-formed segments maps
\* metric -> window -> limit -> used with one entry for every metric, window
\* and limit that a segment names, holding the used (as a number) of the
\* last segment that names them; the parse of a missing or empty header or
\* of one with a malformed segment is the empty dict: never an exception,
\* never a partly filled dict.
C24_ParseHeader ==
    ParseDone =>
        LET lines == split(storage.usage, ";")
        IN  IF AllWellFormed(storage.usage)
            THEN /\ \A i \in 1..Len(lines) :
                        (\A j \in (i + 1)..Len(lines) : KeyOf(lines[j]) # KeyOf(lines[i]))
                            => HasEntry(result.limits, KeyOf(lines[i]), UsedOf(lines[i]))
                 /\ Entries(result.limits) = {KeyOf(lines[i]) : i \in 1..Len(lines)}
            ELSE result.limits = EmptyDict

\* C24 witness: the header W-1=1.5/9;W-1=2/9;D-1=-2/5 has been parsed into
\* two entries, W -> 1 -> 9 -> 2 and D -> 1 -> 5 -> -2.
C24_Witness ==
    /\ ParseDone
    /\ storage.usage = <<"W", "-", "1", "=", "1", ".", "5", "/", "9", ";",
                         "W", "-", "1", "=", "2", "/", "9", ";",
                         "D", "-", "1", "=", "-", "2", "/", "5">>
    /\ Cardinality(Entries(result.limits)) = 2
    /\ HasEntry(result.limits, <<<<"W">>, <<"1">>, <<"9">>>>, <<2, 1>>)
    /\ HasEntry(result.limits, <<<<"D">>, <<"1">>, <<"5">>>>, <<-2, 1>>)

-----------------------------------------------------------------------------
(* Response validation, again *)

\* A validation of the response has been made, by the client's function or
\* by the one of ReportsApiSession.
ValidationDone ==
    /\ pc = "done"
    /\ trace[1] \in {"client._validate_response", "ReportsApiSession._validate_response"}

\* The API version of the client that made the validation.
ValidatorVersion ==
    IF trace[1] = "client._validate_response" THEN API_VERSION ELSE ReportsApi_API_VERSION

\* C23: a validation has exactly one outcome, by the status of the
\* response: for 410 a version-mismatch error whose message names the
\* version of the X-Current-Api-Version header; else for 429 a rate-limit
\* error with the limits parsed from the X-Resource-Usage header; else for
\* another error status a request error; else no error, with a warning
\* (naming the header's version) exactly when the response has an
\* X-Current-Api-Version header that differs from the client's API version;
\* no warning comes with an error.
C23_Validation ==
    ValidationDone =>
        IF storage.status_code = 410
        THEN /\ result.exception \in {"ApiVersionMismatchException", "ReportsApiException"}
             /\ result.newest_version = storage.version
             /\ result.warned = <<>>
        ELSE IF storage.status_code = 429
        THEN /\ result.exception \in {"ApiRateLimitException", "ReportsApiRateLimitException"}
             /\ result.limits = parse_resource_usage_header(storage.usage)
             /\ result.warned = <<>>
        ELSE IF storage.status_code >= 400
        THEN /\ result.exception \in {"ApiRequestException", "ReportsApiRequestException"}
             /\ result.warned = <<>>
        ELSE /\ result.exception = "none"
             /\ result.warned = IF storage.version # None /\ storage.version # ValidatorVersion
                                THEN <<storage.version>> ELSE <<>>

\* C23 witness: ReportsApiSession has validated a response of status 200
\* that has no X-Current-Api-Version header, and a warning was emitted.
C23_Witness ==
    /\ pc = "done"
    /\ trace[1] = "ReportsApiSession._validate_response"
    /\ storage.status_code = 200
    /\ storage.version = None
    /\ result.exception = "none"
    /\ result.warned = <<None>>

-----------------------------------------------------------------------------
(* fill_missing_days, again *)

StrLessEq(a, b) == a = b \/ StrLess(a, b)

\* The day strings of the data.
DataDays == {storage.data[i].day : i \in 1..Len(storage.data)}

\* How often a row is in a list.
Copies(rows, row) == Cardinality({i \in 1..Len(rows) : rows[i] = row})

\* The result is the rows of the data and a copy of the template for every
\* calendar day from `first` to `last` that no row of the data has, sorted
\* by day.
FilledBetween(first, last) ==
    LET missing == {strftime(d) : d \in {date \in Dates :
                                            /\ StrLessEq(first, strftime(date))
                                            /\ StrLessEq(strftime(date), last)
                                            /\ strftime(date) \notin DataDays}}
        rows == result.rows
    IN  /\ result.kind = "return"
        /\ \A i \in 1..(Len(rows) - 1) : StrLessEq(rows[i].day, rows[i + 1].day)
        /\ \A i \in 1..Len(rows) :
              \/ rows[i].day \in missing /\ rows[i] = [storage.template EXCEPT !.day = rows[i].day]
              \/ \E k \in 1..Len(storage.data) : storage.data[k] = rows[i]
        /\ \A k \in 1..Len(storage.data) :
              Copies(rows, storage.data[k]) = Copies(storage.data, storage.data[k])
        /\ \A day \in missing : Copies(rows, [storage.template EXCEPT !.day = day]) = 1

\* C30: fill_missing_days with day_from <= day_to returns, sorted by day,
\* the rows of the data and one copy of the template, its day set, for
\* every calendar day of [day_from, day_to] without a row; with both
\* omitted (and data that is not empty) the range is from the earliest to
\* the latest day of the data.
C30_FillMissingDays ==
    pc = "done" =>
        /\ (storage.day_from # NoDay /\ storage.day_to # NoDay
                /\ StrLessEq(storage.day_from, storage.day_to))
              => FilledBetween(storage.day_from, storage.day_to)
        /\ (storage.day_from = NoDay /\ storage.day_to = NoDay /\ Len(storage.data) > 0)
              => FilledBetween(CHOOSE d \in DataDays : \A e \in DataDays : StrLessEq(d, e),
                               CHOOSE d \in DataDays : \A e \in DataDays : StrLessEq(e, d))

\* C30 witness: fill_missing_days(data, template, '2020-01-30', '2020-02-01')
\* on data with the one row of 2020-01-31 has returned that row alone.
C30_Witness ==
    /\ pc = "done"
    /\ storage.day_from = <<2020, 1, 30>>
    /\ storage.day_to = <<2020, 2, 1>>
    /\ storage.data = <<Row(<<2020, 1, 31>>, 5)>>
    /\ result = DateReturned(<<Row(<<2020, 1, 31>>, 5)>>)

-----------------------------------------------------------------------------
(* squash, again *)

\* The sum of credit + debit over the first n rows.
RECURSIVE Turnover(_, _)
Turnover(rows, n) ==
    IF n = 0 THEN 0 ELSE Turnover(rows, n - 1) + rows[n].credit + rows[n].debit

\* The sum of the values of the items.
RECURSIVE Total(_)
Total(billing) == IF Len(billing) = 0 THEN 0 ELSE billing[1].value + Total(Tail(billing))

\* C29: squash returns rows sorted ascending by (day, position,
\* operation), none with credit and debit both zero, numbered 1..n in
\* their order, the balance of row i being initial_balance plus the sum of
\* credit + debit over rows 1..i, and the last balance being
\* initial_balance plus the sum of the values of all items of the input,
\* whatever their order.
C29_Squash ==
    pc = "done" =>
        /\ \A i \in 1..(Len(result) - 1) :
              \/ KeyLess(result[i], result[i + 1])
              \/ /\ result[i].day = result[i + 1].day
                 /\ result[i].position = result[i + 1].position
                 /\ result[i].operation = result[i + 1].operation
        /\ \A i \in 1..Len(result) :
              /\ result[i].credit # 0 \/ result[i].debit # 0
              /\ result[i].recordNumber = i
              /\ result[i].balance = storage.initial_balance + Turnover(result, i)
        /\ Len(result) > 0 =>
              result[Len(result)].balance = storage.initial_balance + Total(storage.billing)

\* C29 witness: squash of three costs of -2, of day 1, day 2 and day 1 in
\* this order, with the initial balance 10, has returned two rows, the
\* first of day 1 with the debit -4 and the last with the balance 4.
C29_Witness ==
    /\ pc = "done"
    /\ storage.initial_balance = 10
    /\ storage.billing = <<Item(1, "CLICKS", -2, ""), Item(2, "CLICKS", -2, ""),
                           Item(1, "IMPS", -2, "")>>
    /\ Len(result) = 2
    /\ result[1].day = 1 /\ result[1].debit = -4
    /\ result[2].balance = 4

====
